---------------------------- MODULE Spec2Model ----------------------------
(***************************************************************************)
(* A model of the view-tree reconciliation core of xilem:                  *)
(*   - VecSplice            (crates/xilem_core/src/vec_splice.rs)          *)
(*   - the ViewSequence impls for single views, Option, Vec and tuples     *)
(*                          (crates/xilem_core/src/sequence.rs)            *)
(*   - OneOf2 as View and as ViewSequence                                  *)
(*                          (xilem_core/src/views/one_of.rs)               *)
(*   - Cached / memoize     (crates/xilem_html/src/cached.rs) over an      *)
(*     event listener       (crates/xilem_html/src/event/events.rs)        *)
(*   - Cx::with_id / with_new_id (crates/xilem_html/src/context.rs)        *)
(*   - the DOM element views and their child diffing                       *)
(*                          (crates/xilem_html/src/elements.rs, view.rs)   *)
(*   - the tree mutations of Cx (crates/xilem_html/src/context.rs)         *)
(*   - the OneOfN views of xilem_html (crates/xilem_html/src/one_of.rs)    *)
(*   - the class, attribute and style modifiers of xilem_web               *)
(*                          (xilem_web/src/class.rs, attribute.rs,         *)
(*                           style.rs, element_props.rs)                   *)
(* Twelve specifications share the module: SpecSplice drives VecSplice     *)
(* directly, SpecSeq drives build and rebuild passes over a view sequence, *)
(* SpecSeqMsg adds message deliveries between the passes, SpecOneOf drives *)
(* a OneOf2 used as a View or as a ViewSequence, SpecCall applies the      *)
(* sequence functions to arbitrary states and views, SpecMemo drives a     *)
(* memoized or static view through passes and message deliveries,          *)
(* SpecListener an event listener view, SpecCx nested with_id calls,       *)
(* SpecElement an element view through build and rebuild passes,           *)
(* SpecMutations the recording and applying of tree mutations,             *)
(* SpecHtmlOneOf a xilem_html OneOf2 in a sequence position, and           *)
(* SpecModifiers the modifier views around one element of xilem_web.       *)
(***************************************************************************)
EXTENDS Integers, Sequences, FiniteSets, TLC

VARIABLES
    v,          \* VecSplice.v: the target vector (the element collection)
    scratch,    \* VecSplice.scratch
    ix,         \* VecSplice.ix
    pass,       \* history of the current edit pass over v (SpecSplice)
    lastOp,     \* the last VecSplice operation, the splice it was applied to
                \* and how it ended (SpecSplice)
    seqType,    \* the (static) type of the view sequence (SpecSeq)
    view,       \* the view of the preceding pass: the next rebuild's prev
    state,      \* the sequence's State, as left by the preceding pass
    nextId,     \* the process-wide Id counter: the next Id::next()
    last,       \* what the last build / rebuild pass did and returned
    lastMsg,    \* the last message delivery and its MessageResult
    oneOf,      \* a OneOf2 position: its view, OneOfState and elements (SpecOneOf)
    trace,      \* what the last operation on the OneOf2 did and returned
    call,       \* a sequence state and the last function applied to it (SpecCall)
    memo,       \* a memoized view in a sequence, its state and element (SpecMemo)
    mtrace,     \* what the last operation on the memoized view did and returned
    cx,         \* Cx.id_path and the with_id / with_new_id calls in progress (SpecCx)
    lis,        \* an event listener view, its id, state and element (SpecListener)
    ltrace,     \* what the last operation on the event listener did and returned
    dom,        \* a DOM element view, its children and the DOM around it (SpecElement)
    tm,         \* Cx.mutations and the element they are applied to (SpecMutations)
    props,      \* the class and attribute modifiers of an element (SpecModifiers)
    hone        \* a xilem_html OneOf2 in a sequence position (SpecHtmlOneOf)

spliceVars == <<pass, lastOp>>
seqVars == <<seqType, view, state, nextId, last, lastMsg>>
oneOfVars == <<oneOf, trace>>
callVars == <<call>>
memoVars == <<memo, mtrace>>
cxVars == <<cx>>
listenerVars == <<lis, ltrace>>
webVars == <<dom, tm, props, hone>>
coreVars == <<v, scratch, ix, pass, lastOp, seqType, view, state, nextId, last, lastMsg,
              oneOf, trace, call, memo, mtrace, cx, lis, ltrace>>
vars == <<v, scratch, ix, pass, lastOp, seqType, view, state, nextId, last, lastMsg,
          oneOf, trace, call, memo, mtrace, cx, lis, ltrace, dom, tm, props, hone>>

---------------------------------------------------------------------------
(* Bounds *)

\* longest starting element sequence L
MaxLen == 3
\* most push operations in one edit pass
MaxPush == 2
\* longest Vec view of the nested sequence types
MaxVec == 2
\* longest Vec view of the flat Vec<&str> sequence type
MaxWide == 5
\* most identifiers Id::next() hands out in one behaviour
MaxId == 6
\* the largest generation: u64::MAX narrowed, so that the wrap is reachable
MaxGeneration == 3
\* most variant switches counted after an id path was captured: enough for
\* the generation to come round
MaxSwitches == MaxGeneration + 2
\* the largest identifier stored in the state values of SpecCall
MaxCallId == 2
\* the clicks after which the event callback stops changing the app state
MaxClicks == 2
\* deepest nesting of with_id / with_new_id calls
MaxDepth == 3
\* most with_id / with_new_id calls in one behaviour
MaxCxCalls == 4
\* the largest Id::next() may have reached when a rebuild of the event
\* listener starts
MaxListenerId == 4
\* the longest Vec among an element's children
MaxChildren == 2
\* the largest identifier an element and its children use
MaxElementId == 6
\* the largest identity of a DOM element created for a view
MaxElementNode == 3
\* the most children an element starts with when its mutations are applied
MaxTmChildren == 2
\* the largest id a child gets while mutations are accumulated
MaxTmId == 5
\* the largest id a xilem_html OneOf2 position gets
MaxHoneId == 4
\* modifier views wrapped around one element
MaxModifierViews == 2
\* values one Class or Style view sets in one pass
MaxValues == 2
\* distinct values of an attribute
MaxAttrValue == 2
\* distinct values of a style
MaxStyleValue == 1

---------------------------------------------------------------------------
(* Vec helpers (0-based Rust indices mapped onto 1-based sequences) *)

\* Iterator::rev
Rev(s) == [i \in 1..Len(s) |-> s[Len(s) + 1 - i]]

\* usize::saturating_sub
saturating_sub(a, b) == IF a > b THEN a - b ELSE 0

\* Vec::truncate(n): keeps the first n elements, no effect when n >= len
truncate(s, n) == IF n < Len(s) THEN SubSeq(s, 1, n) ELSE s

\* the elements s[n..] that Vec::splice(n.., []) removes and yields
tail_from(s, n) == SubSeq(s, n + 1, Len(s))

---------------------------------------------------------------------------
(* VecSplice: a splice is the record [v, scratch, ix, panic]; panic is set *)
(* when the operation aborts (Option::unwrap on None, index out of range). *)

\* VecSplice::new
VecSplice_new(vec, scr) == [v |-> vec, scratch |-> scr, ix |-> 0, panic |-> FALSE]

\* mutant of move_rest_at_ix_to_scratch: without the rev()
move_rest_unreversed(s, i) ==
    [s EXCEPT !.v = s.v \o tail_from(s.scratch, i),
              !.scratch = truncate(s.scratch, i)]

\* fn move_rest_at_ix_to_scratch: despite its name it moves scratch[i..],
\* reversed, onto the end of v
move_rest_at_ix_to_scratch(s, i) ==
    [s EXCEPT !.v = s.v \o Rev(tail_from(s.scratch, i)),
              !.scratch = truncate(s.scratch, i)]

\* mutant of clear_tail: drops the tail of v
clear_tail_dropping(s) == [s EXCEPT !.v = truncate(s.v, s.ix)]

\* fn clear_tail
clear_tail(s) ==
    IF Len(s.v) > s.ix
    THEN [s EXCEPT !.scratch = s.scratch \o Rev(tail_from(s.v, s.ix)),
                   !.v = truncate(s.v, s.ix)]
    ELSE s

\* mutant of skip: advances the cursor without consulting scratch
skip_ignoring_scratch(s, n) == [s EXCEPT !.ix = s.ix + n]

\* fn skip
skip(s, n) ==
    LET s1 == IF Len(s.v) < s.ix + n
              THEN move_rest_at_ix_to_scratch(s, saturating_sub(Len(s.scratch), n))
              ELSE s
    IN  [s1 EXCEPT !.ix = s.ix + n]

\* mutant of delete: without the branch that saves the elements behind the
\* deleted ones
delete_dropping_following(s, n) ==
    LET d == saturating_sub(n, saturating_sub(Len(s.v), s.ix))
    IN  [s EXCEPT !.scratch = truncate(s.scratch, saturating_sub(Len(s.scratch), d)),
                  !.v = truncate(s.v, s.ix)]

\* mutant of delete: moves the deleted elements to scratch along with the
\* elements behind them
delete_keeping_deleted(s, n) ==
    [s EXCEPT !.scratch = s.scratch \o Rev(tail_from(s.v, s.ix)),
              !.v = truncate(s.v, s.ix)]

\* fn delete
delete(s, n) ==
    LET len == Len(s.v)
        del_end_ix == s.ix + n
        s1 == IF len < del_end_ix
              THEN LET v_rest_len == saturating_sub(len, s.ix)
                       d == saturating_sub(n, v_rest_len)
                       scratch_start_ix == saturating_sub(Len(s.scratch), d)
                   IN  [s EXCEPT !.scratch = truncate(s.scratch, scratch_start_ix)]
              ELSE IF len > del_end_ix
              THEN [s EXCEPT !.scratch = s.scratch \o Rev(tail_from(s.v, del_end_ix)),
                             !.v = truncate(s.v, del_end_ix)]
              ELSE s
    IN  [s1 EXCEPT !.v = truncate(s1.v, s.ix)]

\* mutant of push: appends at the end of v without first moving the elements
\* behind the cursor to scratch
push_at_end(s, value) == [s EXCEPT !.v = Append(s.v, value), !.ix = s.ix + 1]

\* fn push
push(s, value) ==
    LET s1 == clear_tail(s)
    IN  [s1 EXCEPT !.v = Append(s1.v, value), !.ix = s.ix + 1]

\* mutant of mutate: takes the element from the bottom of scratch
mutate_from_bottom(s) ==
    IF Len(s.v) = s.ix /\ s.scratch = <<>>
    THEN [s EXCEPT !.panic = TRUE]
    ELSE LET s1 == IF Len(s.v) = s.ix
                   THEN [s EXCEPT !.v = Append(s.v, s.scratch[1]),
                                  !.scratch = Tail(s.scratch)]
                   ELSE s
         IN  [s1 EXCEPT !.ix = s.ix + 1, !.panic = ~(s.ix < Len(s1.v))]

\* fn mutate: the handle it returns is the element at (0-based) index ix, i.e.
\* s.v[ix + 1] here, of the splice it leaves; it panics when scratch.pop()
\* is None or when index ix is out of range.
mutate(s) ==
    IF Len(s.v) = s.ix /\ s.scratch = <<>>
    THEN [s EXCEPT !.panic = TRUE]
    ELSE LET s1 == IF Len(s.v) = s.ix
                   THEN [s EXCEPT !.v = Append(s.v, s.scratch[Len(s.scratch)]),
                                  !.scratch = truncate(s.scratch, Len(s.scratch) - 1)]
                   ELSE s
         IN  [s1 EXCEPT !.ix = s.ix + 1, !.panic = ~(s.ix < Len(s1.v))]

\* fn len
len(s) == s.ix

---------------------------------------------------------------------------
(* Views, states and elements of the sequences.                            *)
(*   view  : [k, t, c]  k = "str" (a &'static str, t its text), "none",    *)
(*           "some" (c = <<inner>>), "vec" or "tup" (c = the children)     *)
(*   state : [k, id, c] k = "leaf" ((V::State, Id) of a single view),      *)
(*           "none", "some", "vec", "tup"                                  *)
(*   element (Pod) : [id, data], the text node built under that id         *)
(* A context c threads what a pass mutates: the splice vs, the Id counter, *)
(* the splice operations issued (ops), one record per rebuild call (log),  *)
(* and whether the pass has panicked.                                      *)

\* ChangeFlags::empty / ChangeFlags::default
ChangeFlags_empty == {}
\* ChangeFlags::tree_structure
tree_structure == {"STRUCTURE"}
\* ChangeFlags::OTHER_CHANGE
OTHER_CHANGE == {"OTHER_CHANGE"}

StrView(t) == [k |-> "str", t |-> t, c |-> <<>>]
NoneView == [k |-> "none", t |-> "", c |-> <<>>]
SomeView(x) == [k |-> "some", t |-> "", c |-> <<x>>]
VecView(xs) == [k |-> "vec", t |-> "", c |-> xs]
TupView(xs) == [k |-> "tup", t |-> "", c |-> xs]

LeafState(id) == [k |-> "leaf", id |-> id, c |-> <<>>]
NoneState == [k |-> "none", id |-> 0, c |-> <<>>]
SomeState(s) == [k |-> "some", id |-> 0, c |-> <<s>>]
VecState(ss) == [k |-> "vec", id |-> 0, c |-> ss]
TupState(ss) == [k |-> "tup", id |-> 0, c |-> ss]

\* Pod::new / DomNode::into_pod
Pod_new(node, id) == [id |-> id, data |-> node]

\* Id::next(): process-wide unique, monotonically increasing
Id_next(c) == [id |-> c.nextId, c |-> [c EXCEPT !.nextId = @ + 1]]

\* impl ElementsSplice for VecSplice: push
es_push(c, element, id) ==
    [c EXCEPT !.vs = push(c.vs, element),
              !.ops = Append(@, [op |-> "push", n |-> 1, id |-> id])]

\* mutant of es_delete: deletes one element fewer than asked
es_delete_one_short(c, n) ==
    [c EXCEPT !.vs = delete(c.vs, saturating_sub(n, 1)),
              !.ops = Append(@, [op |-> "delete", n |-> saturating_sub(n, 1), id |-> 0])]

\* impl ElementsSplice for VecSplice: delete
es_delete(c, n) ==
    [c EXCEPT !.vs = delete(c.vs, n),
              !.ops = Append(@, [op |-> "delete", n |-> n, id |-> 0])]

\* impl ElementsSplice for VecSplice: mutate (the closure is applied by the caller
\* to the element at 1-based index c.vs.ix + 1 of the result)
es_mutate(c) ==
    LET s == mutate(c.vs)
    IN  [c EXCEPT !.vs = s,
                  !.panic = s.panic,
                  !.ops = Append(@, [op |-> "mutate", n |-> 1,
                                     id |-> IF s.panic THEN 0 ELSE s.v[c.vs.ix + 1].id])]

\* View for &'static str: build
str_build(this, c) ==
    LET el == this.t
        i == Id_next(c)
    IN  [id |-> i.id, el |-> el, c |-> i.c]

\* View for &'static str: rebuild, on the text node's data
str_rebuild(this, prev, id, data) ==
    IF prev.t # this.t
    THEN [data |-> this.t, id |-> id, fl |-> ChangeFlags_empty \cup OTHER_CHANGE]
    ELSE [data |-> data, id |-> id, fl |-> ChangeFlags_empty]

\* View for &'static str: message
str_message(this, id_path, r, id) ==
    [kind |-> "Nop", msg |-> "", calls |-> Append(r.calls, id)]

\* MessageResult::Stale(message)
Stale(message, calls) == [kind |-> "Stale", msg |-> message, calls |-> calls]

\* ViewSequence for V: View -- build
view_seq_build(this, c) ==
    LET b == str_build(this, c)
    IN  [st |-> LeafState(b.id), c |-> es_push(b.c, Pod_new(b.el, b.id), b.id)]

\* mutant of view_seq_rebuild: replaces the element by a newly built one
view_seq_rebuild_as_build(this, prev, st, c) ==
    LET b == view_seq_build(this, c)
    IN  [st |-> b.st, c |-> b.c, fl |-> tree_structure]

\* ViewSequence for V: View -- rebuild
view_seq_rebuild(this, prev, st, c) ==
    LET c1 == es_mutate(c)
        i == c.vs.ix + 1
    IN  IF c1.panic
        THEN [st |-> st, c |-> c1, fl |-> ChangeFlags_empty]
        ELSE LET r == str_rebuild(this, prev, st.id, c1.vs.v[i].data)
             IN  [st |-> [st EXCEPT !.id = r.id],
                  c |-> [c1 EXCEPT !.vs.v[i].data = r.data],
                  fl |-> r.fl]

\* mutant of view_seq_message: forwards without comparing the path's head
\* with the stored id
view_seq_message_any_head(this, id_path, st, r) ==
    IF id_path # <<>>
    THEN str_message(this, Tail(id_path), r, st.id)
    ELSE Stale(r.msg, r.calls)

\* ViewSequence for V: View -- message
view_seq_message(this, id_path, st, r) ==
    IF id_path # <<>> /\ Head(id_path) = st.id
    THEN str_message(this, Tail(id_path), r, st.id)
    ELSE Stale(r.msg, r.calls)

RECURSIVE SeqBuild(_, _)
RECURSIVE SeqRebuild(_, _, _, _, _)
RECURSIVE SeqCount(_, _)
RECURSIVE SeqMessage(_, _, _, _)
RECURSIVE build_each(_, _, _, _, _)
RECURSIVE rebuild_each(_, _, _, _, _, _, _, _)
RECURSIVE count_each(_, _, _, _, _)
RECURSIVE message_each(_, _, _, _, _)
RECURSIVE message_each_no_break(_, _, _, _, _)
RECURSIVE or_each(_, _, _, _, _)

\* the children this.c[i..n] built in order, their states appended to sts
build_each(items, i, n, sts, c) ==
    IF i > n
    THEN [st |-> sts, c |-> c]
    ELSE LET r == SeqBuild(items[i], c)
         IN  build_each(items, i + 1, n, Append(sts, r.st), r.c)

\* the children 1..n rebuilt in order against prevs and sts, flags or-ed
rebuild_each(items, prevs, sts, i, n, c, fl, pos) ==
    IF i > n
    THEN [st |-> sts, c |-> c, fl |-> fl]
    ELSE LET r == SeqRebuild(items[i], prevs[i], sts[i], c, Append(pos, i))
         IN  rebuild_each(items, prevs, [sts EXCEPT ![i] = r.st], i + 1, n,
                          r.c, fl \cup r.fl, pos)

\* mutant of count_each: counts the first position only
count_each_first_only(items, sts, i, n, off) ==
    IF i > n
    THEN [n |-> 0, panic |-> FALSE]
    ELSE SeqCount(items[i + off], sts[i])

\* the counts of items[i] for sts[i], i in from..to, summed
count_each(items, sts, i, n, off) ==
    IF i > n
    THEN [n |-> 0, panic |-> FALSE]
    ELSE LET a == SeqCount(items[i + off], sts[i])
             b == count_each(items, sts, i + 1, n, off)
         IN  [n |-> a.n + b.n, panic |-> a.panic \/ b.panic]

\* mutant of message_each: the loop does not break on a result other than
\* Stale
message_each_no_break(items, id_path, sts, i, r) ==
    IF i > Len(items) \/ i > Len(sts)
    THEN r
    ELSE message_each_no_break(items, id_path, sts, i + 1,
                               SeqMessage(items[i], id_path, sts[i], r))

\* the message offered to the children i..n in order while the result is Stale
message_each(items, id_path, sts, i, r) ==
    IF i > Len(items) \/ i > Len(sts) \/ r.kind # "Stale"
    THEN r
    ELSE message_each(items, id_path, sts, i + 1,
                      SeqMessage(items[i], id_path, sts[i], r))

\* impl_view_tuple: build
tuple_build(this, c) ==
    LET r == build_each(this.c, 1, Len(this.c), <<>>, c)
    IN  [st |-> TupState(r.st), c |-> r.c]

\* mutant of tuple_rebuild: only the first position is rebuilt
tuple_rebuild_first_only(this, prev, st, c, pos) ==
    LET r == rebuild_each(this.c, prev.c, st.c, 1, 1, c, ChangeFlags_empty, pos)
    IN  [st |-> TupState(r.st), c |-> r.c, fl |-> r.fl]

\* impl_view_tuple: rebuild
tuple_rebuild(this, prev, st, c, pos) ==
    LET r == rebuild_each(this.c, prev.c, st.c, 1, Len(this.c), c,
                          ChangeFlags_empty, pos)
    IN  [st |-> TupState(r.st), c |-> r.c, fl |-> r.fl]

\* MessageResult::or: the closure's result f replaces r when r is Stale
MessageResult_or(r, f) == IF r.kind = "Stale" THEN f ELSE r

\* the chain of .or(|message| self.$i.message(..)) over the positions i..
or_each(items, id_path, sts, i, r) ==
    IF i > Len(items)
    THEN r
    ELSE or_each(items, id_path, sts, i + 1,
                 MessageResult_or(r, SeqMessage(items[i], id_path, sts[i], r)))

\* impl_view_tuple: message
tuple_message(this, id_path, st, r) ==
    or_each(this.c, id_path, st.c, 1, Stale(r.msg, r.calls))

\* impl_view_tuple: count
tuple_count(this, st) == count_each(this.c, st.c, 1, Len(this.c), 0)

\* ViewSequence for Option<VT>: build
option_build(this, c) ==
    IF this.k = "none"
    THEN [st |-> NoneState, c |-> c]
    ELSE LET r == SeqBuild(this.c[1], c)
         IN  [st |-> SomeState(r.st), c |-> r.c]

\* ViewSequence for Option<VT>: count
option_count(this, st) ==
    IF this.k = "some" /\ st.k = "some" THEN SeqCount(this.c[1], st.c[1])
    ELSE IF this.k = "none" /\ st.k = "none" THEN [n |-> 0, panic |-> FALSE]
    ELSE [n |-> 0, panic |-> TRUE]

\* mutant of option_rebuild: keeps the state and the elements as they are
option_rebuild_unchanged(this, prev, st, c, pos) ==
    [st |-> st, c |-> c, fl |-> ChangeFlags_empty]

\* ViewSequence for Option<VT>: rebuild
option_rebuild(this, prev, st, c, pos) ==
    IF this.k = "some" /\ st.k = "some" /\ prev.k = "some"
    THEN LET r == SeqRebuild(this.c[1], prev.c[1], st.c[1], c, Append(pos, 1))
         IN  [st |-> SomeState(r.st), c |-> r.c, fl |-> r.fl]
    ELSE IF this.k = "none" /\ st.k = "some" /\ prev.k = "some"
    THEN LET count == SeqCount(prev.c[1], st.c[1])
         IN  IF count.panic
             THEN [st |-> st, c |-> [c EXCEPT !.panic = TRUE], fl |-> ChangeFlags_empty]
             ELSE [st |-> NoneState, c |-> es_delete(c, count.n), fl |-> tree_structure]
    ELSE IF this.k = "some" /\ st.k = "none" /\ prev.k = "none"
    THEN LET r == SeqBuild(this.c[1], c)
         IN  [st |-> SomeState(r.st), c |-> r.c, fl |-> tree_structure]
    ELSE IF this.k = "none" /\ st.k = "none" /\ prev.k = "none"
    THEN [st |-> st, c |-> c, fl |-> ChangeFlags_empty]
    ELSE [st |-> st, c |-> [c EXCEPT !.panic = TRUE], fl |-> ChangeFlags_empty]

\* mutant of option_message: a state of the other shape is answered Stale
option_message_lenient(this, id_path, st, r) ==
    IF this.k = "some" /\ st.k = "some" THEN SeqMessage(this.c[1], id_path, st.c[1], r)
    ELSE Stale(r.msg, r.calls)

\* ViewSequence for Option<VT>: message
option_message(this, id_path, st, r) ==
    IF this.k = "some" /\ st.k = "some" THEN SeqMessage(this.c[1], id_path, st.c[1], r)
    ELSE IF this.k = "none" /\ st.k = "none" THEN Stale(r.msg, r.calls)
    ELSE [kind |-> "Panic", msg |-> r.msg, calls |-> r.calls]

\* ViewSequence for Vec<VT>: build
vec_build(this, c) ==
    LET r == build_each(this.c, 1, Len(this.c), <<>>, c)
    IN  [st |-> VecState(r.st), c |-> r.c]

\* Iterator::zip ends with its shortest side
zip_len(a, b) == IF Len(a) < Len(b) THEN Len(a) ELSE Len(b)

\* ViewSequence for Vec<VT>: count
vec_count(this, st) == count_each(this.c, st.c, 1, zip_len(this.c, st.c), 0)

\* ViewSequence for Vec<VT>: rebuild
vec_rebuild(this, prev, st, c, pos) ==
    LET n == Len(this.c)
        m == IF zip_len(this.c, prev.c) < Len(st.c)
             THEN zip_len(this.c, prev.c) ELSE Len(st.c)
        r == rebuild_each(this.c, prev.c, st.c, 1, m, c, ChangeFlags_empty, pos)
    IN  IF r.c.panic
        THEN [st |-> VecState(r.st), c |-> r.c, fl |-> r.fl]
        ELSE IF n < Len(prev.c)
        THEN \* state.splice(n.., []) panics when n > state.len(); prev[n + i]
             \* panics when the state is longer than prev
             IF n > Len(r.st) \/ Len(r.st) > Len(prev.c)
             THEN [st |-> VecState(r.st), c |-> [r.c EXCEPT !.panic = TRUE], fl |-> r.fl]
             ELSE LET n_delete == count_each(prev.c, tail_from(r.st, n), 1,
                                             Len(r.st) - n, n)
                  IN  IF n_delete.panic
                      THEN [st |-> VecState(truncate(r.st, n)),
                            c |-> [r.c EXCEPT !.panic = TRUE], fl |-> r.fl]
                      ELSE [st |-> VecState(truncate(r.st, n)),
                            c |-> es_delete(r.c, n_delete.n),
                            fl |-> r.fl \cup tree_structure]
        ELSE IF n > Len(prev.c)
        THEN LET b == build_each(this.c, Len(prev.c) + 1, n, r.st, r.c)
             IN  [st |-> VecState(b.st), c |-> b.c, fl |-> r.fl \cup tree_structure]
        ELSE [st |-> VecState(r.st), c |-> r.c, fl |-> r.fl]

\* ViewSequence for Vec<VT>: message
vec_message(this, id_path, st, r) ==
    message_each(this.c, id_path, st.c, 1, Stale(r.msg, r.calls))

\* ViewSequence::build, dispatched on the implementing type
SeqBuild(this, c) ==
    IF c.panic THEN [st |-> NoneState, c |-> c]
    ELSE CASE this.k = "str" -> view_seq_build(this, c)
           [] this.k \in {"none", "some"} -> option_build(this, c)
           [] this.k = "vec" -> vec_build(this, c)
           [] this.k = "tup" -> tuple_build(this, c)

\* ViewSequence::rebuild, dispatched on the implementing type; every call
\* leaves a record in c.log: where it ran (pos, the child indices from the
\* root), on what, the splice operations it issued (ops o0+1 .. o1), the
\* identifiers it allocated (id0 .. id1-1), the cursor before and after,
\* and the flags it returned
SeqRebuild(this, prev, st, c, pos) ==
    IF c.panic THEN [st |-> st, c |-> c, fl |-> ChangeFlags_empty]
    ELSE LET r == CASE this.k = "str" -> view_seq_rebuild(this, prev, st, c)
                    [] this.k \in {"none", "some"} -> option_rebuild(this, prev, st, c, pos)
                    [] this.k = "vec" -> vec_rebuild(this, prev, st, c, pos)
                    [] this.k = "tup" -> tuple_rebuild(this, prev, st, c, pos)
             e == [pos |-> pos, this |-> this, prev |-> prev, st0 |-> st, st1 |-> r.st,
                   o0 |-> Len(c.ops), o1 |-> Len(r.c.ops),
                   id0 |-> c.nextId, id1 |-> r.c.nextId,
                   ix0 |-> c.vs.ix, ix1 |-> r.c.vs.ix,
                   fl |-> r.fl, panic |-> r.c.panic]
         IN  [st |-> r.st, c |-> [r.c EXCEPT !.log = Append(@, e)], fl |-> r.fl]

\* ViewSequence::count, dispatched on the implementing type
SeqCount(this, st) ==
    CASE this.k = "str" -> [n |-> 1, panic |-> FALSE]
      [] this.k \in {"none", "some"} -> option_count(this, st)
      [] this.k = "vec" -> vec_count(this, st)
      [] this.k = "tup" -> tuple_count(this, st)

\* ViewSequence::message, dispatched on the implementing type
SeqMessage(this, id_path, st, r) ==
    CASE this.k = "str" -> view_seq_message(this, id_path, st, r)
      [] this.k \in {"none", "some"} -> option_message(this, id_path, st, r)
      [] this.k = "vec" -> vec_message(this, id_path, st, r)
      [] this.k = "tup" -> tuple_message(this, id_path, st, r)

---------------------------------------------------------------------------
(* OneOf2 as View and as ViewSequence.                                     *)
(*   view   : [variant, t]  OneOf2::A(e) / OneOf2::B(e), t the inner       *)
(*            view's content                                               *)
(*   state  : OneOfState [inner_state, generation], inner_state being      *)
(*            OneOf::A(st) / OneOf::B(st) = [variant, st]                  *)
(*   context: [id_path, events]; events lists, in order, the calls made on *)
(*            the inner view with the id path they ran under, and the      *)
(*            assignments to the OneOfState                                *)
(* The inner views are the type parameters A and B: a build remembers the  *)
(* id path it ran under, a message is answered with an action.             *)

OneOf2(variant, t) == [variant |-> variant, t |-> t]
OneOf(variant, st) == [variant |-> variant, st |-> st]
OneOfState(inner_state, generation) ==
    [inner_state |-> inner_state, generation |-> generation]

\* ViewId::new and ViewId::routing_id
ViewId_new(raw) == raw
routing_id(id) == id

\* ViewPathTracker::with_id: the closure runs with id pushed on the id path
push_id(ctx, id) == [ctx EXCEPT !.id_path = Append(@, id)]
pop_id(ctx) == [ctx EXCEPT !.id_path = SubSeq(@, 1, Len(@) - 1)]

\* an entry of the event list
event(ctx, ev, variant, gen) ==
    [ctx EXCEPT !.events = Append(@, [ev |-> ev, variant |-> variant,
                                      path |-> ctx.id_path, gen |-> gen])]

\* mutant of wrapping_add: adds the increment twice
wrapping_add_twice(a, b) == (a + b + b) % (MaxGeneration + 1)

\* u64::wrapping_add
wrapping_add(a, b) == (a + b) % (MaxGeneration + 1)

\* the inner view or sequence: build / seq_build
inner_build(e, ctx) ==
    [element |-> [variant |-> e.variant, data |-> e.t],
     state |-> [path |-> ctx.id_path],
     ctx |-> event(ctx, "build", e.variant, 0)]

\* the inner view or sequence: rebuild / seq_rebuild
inner_rebuild(new, prev, st, ctx, element) ==
    [element |-> [element EXCEPT !.data = new.t],
     state |-> st,
     ctx |-> event(ctx, "rebuild", new.variant, 0)]

\* the inner view or sequence: teardown / seq_teardown
inner_teardown(e, st, ctx) == event(ctx, "teardown", e.variant, 0)

\* the inner view or sequence: message / seq_message
inner_message(e, st, rest, message) ==
    [kind |-> "Action", msg |-> message,
     calls |-> <<[variant |-> e.variant, built_at |-> st.path, rest |-> rest]>>]

\* a panic while routing a message (expect on an empty path, unreachable!())
MessagePanic(message) == [kind |-> "Panic", msg |-> message, calls |-> <<>>]

\* mutant of OneOf2_build: starts at generation 1
OneOf2_build_from_one(self, ctx) ==
    LET generation == 1
        b == inner_build(self, push_id(ctx, ViewId_new(generation)))
    IN  [element |-> b.element,
         state |-> OneOfState(OneOf(self.variant, b.state), generation),
         ctx |-> pop_id(b.ctx),
         panic |-> FALSE]

\* View for OneOf2: build
OneOf2_build(self, ctx) ==
    LET generation == 0
        b == inner_build(self, push_id(ctx, ViewId_new(generation)))
    IN  [element |-> b.element,
         state |-> OneOfState(OneOf(self.variant, b.state), generation),
         ctx |-> pop_id(b.ctx),
         panic |-> FALSE]

\* mutant of OneOf2_rebuild: a variant change rebuilds the element but keeps
\* the stored inner state of the previous variant
OneOf2_rebuild_keeping_state(self, prev, view_state, ctx, element) ==
    IF prev.variant = self.variant /\ view_state.inner_state.variant = self.variant
    THEN LET r == inner_rebuild(self, prev, view_state.inner_state.st,
                                push_id(ctx, ViewId_new(view_state.generation)),
                                element)
         IN  [element |-> r.element,
              state |-> [view_state EXCEPT !.inner_state.st = r.state],
              ctx |-> pop_id(r.ctx),
              panic |-> FALSE]
    ELSE IF prev.variant # view_state.inner_state.variant
    THEN [element |-> element, state |-> view_state,
          ctx |-> push_id(ctx, ViewId_new(view_state.generation)), panic |-> TRUE]
    ELSE LET c1 == pop_id(inner_teardown(prev, view_state.inner_state.st,
                              push_id(ctx, ViewId_new(view_state.generation))))
             generation == wrapping_add(view_state.generation, 1)
             c2 == event(c1, "generation", "", generation)
             b == inner_build(self, push_id(c2, ViewId_new(generation)))
             c4 == event(b.ctx, "update_element", self.variant, 0)
         IN  [element |-> b.element,
              state |-> [view_state EXCEPT !.generation = generation],
              ctx |-> pop_id(c4),
              panic |-> FALSE]

\* View for OneOf2: rebuild
OneOf2_rebuild(self, prev, view_state, ctx, element) ==
    IF prev.variant = self.variant /\ view_state.inner_state.variant = self.variant
    THEN LET r == inner_rebuild(self, prev, view_state.inner_state.st,
                                push_id(ctx, ViewId_new(view_state.generation)),
                                element)
         IN  [element |-> r.element,
              state |-> [view_state EXCEPT !.inner_state.st = r.state],
              ctx |-> pop_id(r.ctx),
              panic |-> FALSE]
    ELSE IF prev.variant # view_state.inner_state.variant
    THEN \* unreachable!()
         [element |-> element, state |-> view_state,
          ctx |-> push_id(ctx, ViewId_new(view_state.generation)), panic |-> TRUE]
    ELSE LET c1 == pop_id(inner_teardown(prev, view_state.inner_state.st,
                              push_id(ctx, ViewId_new(view_state.generation))))
             generation == wrapping_add(view_state.generation, 1)
             c2 == event(c1, "generation", "", generation)
             b == inner_build(self, push_id(c2, ViewId_new(generation)))
             c3 == event(b.ctx, "store_state", self.variant, 0)
             c4 == event(c3, "update_element", self.variant, 0)
         IN  [element |-> b.element,
              state |-> OneOfState(OneOf(self.variant, b.state), generation),
              ctx |-> pop_id(c4),
              panic |-> FALSE]

\* View for OneOf2: teardown
OneOf2_teardown(self, view_state, ctx, element) ==
    IF self.variant = view_state.inner_state.variant
    THEN [ctx |-> pop_id(inner_teardown(self, view_state.inner_state.st,
                             push_id(ctx, ViewId_new(view_state.generation)))),
          panic |-> FALSE]
    ELSE [ctx |-> push_id(ctx, ViewId_new(view_state.generation)), panic |-> TRUE]

\* mutant of OneOf2_message: forwards without comparing the generation
OneOf2_message_any_generation(self, view_state, id_path, message) ==
    IF id_path = <<>>
    THEN MessagePanic(message)
    ELSE inner_message(self, view_state.inner_state.st, Tail(id_path), message)

\* View for OneOf2: message
OneOf2_message(self, view_state, id_path, message) ==
    IF id_path = <<>>
    THEN \* expect("Id path has elements for OneOf2")
         MessagePanic(message)
    ELSE LET start == Head(id_path)
             rest == Tail(id_path)
         IN  IF routing_id(start) # view_state.generation
             THEN Stale(message, <<>>)
             ELSE IF self.variant = view_state.inner_state.variant
             THEN inner_message(self, view_state.inner_state.st, rest, message)
             ELSE \* unreachable!()
                  MessagePanic(message)

\* ViewSequence for OneOf2: seq_build; the inner sequence appends to elements
OneOf2_seq_build(self, ctx, elements) ==
    LET generation == 0
        b == inner_build(self, push_id(ctx, ViewId_new(generation)))
    IN  [elements |-> Append(elements, b.element),
         state |-> OneOfState(OneOf(self.variant, b.state), generation),
         ctx |-> pop_id(b.ctx),
         panic |-> FALSE]

\* ViewSequence for OneOf2: seq_teardown; the inner sequence deletes its
\* elements through the splice
OneOf2_seq_teardown(self, seq_state, ctx, elements) ==
    IF self.variant = seq_state.inner_state.variant
    THEN [elements |-> <<>>,
          ctx |-> pop_id(inner_teardown(self, seq_state.inner_state.st,
                             push_id(ctx, ViewId_new(seq_state.generation)))),
          panic |-> FALSE]
    ELSE [elements |-> elements,
          ctx |-> push_id(ctx, ViewId_new(seq_state.generation)), panic |-> TRUE]

\* mutant of OneOf2_seq_rebuild: the generation advances on every rebuild
OneOf2_seq_rebuild_regenerating(self, prev, seq_state, ctx, elements) ==
    LET generation == wrapping_add(seq_state.generation, 1)
        r == inner_rebuild(self, prev, seq_state.inner_state.st,
                           push_id(ctx, ViewId_new(generation)), elements[1])
    IN  [elements |-> <<r.element>>,
         state |-> OneOfState(OneOf(self.variant, r.state), generation),
         ctx |-> pop_id(r.ctx),
         panic |-> FALSE]

\* ViewSequence for OneOf2: seq_rebuild
OneOf2_seq_rebuild(self, prev, seq_state, ctx, elements) ==
    IF prev.variant = self.variant /\ seq_state.inner_state.variant = self.variant
    THEN LET r == inner_rebuild(self, prev, seq_state.inner_state.st,
                                push_id(ctx, ViewId_new(seq_state.generation)),
                                elements[1])
         IN  [elements |-> <<r.element>>,
              state |-> [seq_state EXCEPT !.inner_state.st = r.state],
              ctx |-> pop_id(r.ctx),
              panic |-> FALSE]
    ELSE LET t == OneOf2_seq_teardown(prev, seq_state, ctx, elements)
         IN  IF t.panic
             THEN [elements |-> t.elements, state |-> seq_state, ctx |-> t.ctx,
                   panic |-> TRUE]
             ELSE LET generation == wrapping_add(seq_state.generation, 1)
                      c2 == event(t.ctx, "generation", "", generation)
                      b == inner_build(self, push_id(c2, ViewId_new(generation)))
                      c3 == event(b.ctx, "store_state", self.variant, 0)
                  IN  [elements |-> Append(t.elements, b.element),
                       state |-> OneOfState(OneOf(self.variant, b.state), generation),
                       ctx |-> pop_id(c3),
                       panic |-> FALSE]

\* mutant of OneOf2_seq_message: forwards whenever the variants agree
OneOf2_seq_message_any_generation(self, seq_state, id_path, message) ==
    IF id_path = <<>>
    THEN MessagePanic(message)
    ELSE IF self.variant = seq_state.inner_state.variant
    THEN inner_message(self, seq_state.inner_state.st, Tail(id_path), message)
    ELSE Stale(message, <<>>)

\* ViewSequence for OneOf2: seq_message
OneOf2_seq_message(self, seq_state, id_path, message) ==
    IF id_path = <<>>
    THEN \* expect("Id path has elements for OneOf2")
         MessagePanic(message)
    ELSE LET start == Head(id_path)
             rest == Tail(id_path)
         IN  IF routing_id(start) # seq_state.generation
             THEN Stale(message, <<>>)
             ELSE IF self.variant = seq_state.inner_state.variant
             THEN inner_message(self, seq_state.inner_state.st, rest, message)
             ELSE Stale(message, <<>>)

\* ViewSequence for OneOf2: count (the inner sequences are single views)
OneOf2_count(self, seq_state) ==
    IF self.variant = seq_state.inner_state.variant
    THEN [n |-> 1, panic |-> FALSE]
    ELSE [n |-> 0, panic |-> TRUE]

\* no id path captured for a later message
NoCapture == [held |-> FALSE, gen |-> 0, switches |-> 0]

\* the OneOf2 position before anything is built, and the empty trace;
\* captured notes the generation an id path was captured under and the
\* variant switches since
NoOneOf ==
    [form |-> "view", phase |-> "new", view |-> OneOf2("A", ""),
     state |-> OneOfState(OneOf("A", [path |-> <<>>]), 0), elements |-> <<>>,
     captured |-> NoCapture]
NoTrace ==
    [op |-> "none", events |-> <<>>, gen0 |-> 0, prev |-> OneOf2("A", ""),
     id_path |-> <<>>, body |-> "", kind |-> "", msg |-> "", calls |-> <<>>,
     captured |-> NoCapture]

\* no function applied yet, no memoized view built yet
NoCx == [id_path |-> <<>>, stack |-> <<>>, nextId |-> 1, calls |-> 0,
         last |-> [op |-> "none", id |-> 0, before |-> <<>>]]

NoListener ==
    [phase |-> "new", view |-> [target |-> [data |-> 0]], id |-> 0,
     st |-> [child_state |-> [built |-> 0], child_id |-> 0, listener |-> 0],
     element |-> 0, nextId |-> 1, app_state |-> 0, target_id |-> 0]

NoLTrace ==
    [op |-> "none", id0 |-> 0, st0 |-> NoListener.st, app_state0 |-> 0,
     target_id0 |-> 0, fl |-> {}, calls |-> <<>>, id_path |-> <<>>, body |-> "",
     kind |-> "", msg |-> ""]

NoOp == [op |-> "new", n |-> 0, avail |-> 0, panic |-> FALSE,
         v0 |-> <<>>, scratch0 |-> <<>>, ix0 |-> 0]

NoCall ==
    [fn |-> "none", ty |-> "", st |-> NoneState, els |-> <<>>, this |-> NoneView,
     prev |-> NoneView, id_path |-> <<>>, body |-> "", panic |-> FALSE, n |-> 0,
     kind |-> "", msg |-> "", calls |-> <<>>, fl |-> ChangeFlags_empty, log |-> <<>>]
NoMemo ==
    [phase |-> "new", view |-> [data |-> 0], st |-> NoneState, elements |-> <<>>,
     nextId |-> 1, app_state |-> 0, requested |-> FALSE]
NoMTrace ==
    [op |-> "none", data0 |-> 0, dirty0 |-> FALSE, requested0 |-> FALSE,
     elements0 |-> <<>>, calls |-> <<>>, fl |-> ChangeFlags_empty, id_path |-> <<>>, body |-> "",
     kind |-> "", msg |-> ""]

---------------------------------------------------------------------------
(* Cached (memoize) over an event listener, used as a single-view sequence. *)
(*   view   : Cached [data]; child_cb(data) is the view it wraps, an event *)
(*            listener OnClick [target] on a target view Target [data]     *)
(*   state  : (CachedState, Id) = [state, id], CachedState = [view,        *)
(*            view_state, dirty], view_state the EventListenerState        *)
(*            [child_state, child_id, listener]                            *)
(*   context: [vs, nextId, ops, panic, calls]; calls lists, in order, the  *)
(*            closures and child functions a pass invoked                  *)
(*   message result: [kind, msg, calls, st, app_state], calls the          *)
(*            callbacks and target handlers invoked, st and app_state the  *)
(*            values the &mut arguments are left with                      *)
(* The target is the type parameter ET: its message answers "refresh" at   *)
(* the end of the id path with RequestRebuild and anything else with Stale. *)

Cached(data) == [data |-> data]
CachedState(child, view_state, dirty) ==
    [view |-> child, view_state |-> view_state, dirty |-> dirty]
OnClick(target) == [target |-> target]
Target(data) == [data |-> data]
EventListenerState(child_state, child_id, listener) ==
    [child_state |-> child_state, child_id |-> child_id, listener |-> listener]

\* VF: the view-constructing callback given to memoize
child_cb(data) == OnClick(Target(data))

\* mutant of invalidate_cb: every pair of data invalidates
invalidate_cb_always(prev, cur) == TRUE

\* UF as memoize sets it: |prev, cur| prev != cur
invalidate_cb(prev, cur) == prev # cur

\* the unit value (), the data of a static view (as a number, like the data
\* of the memoized views)
Unit == 0

\* fn s: Cached::new((), |(), ()| false, move |_| view()), a static view
s_static == Cached(Unit)

\* UF as s sets it: |(), ()| false
s_invalidate_cb(prev, cur) == FALSE

\* Cached.invalidate_cb: the closure the constructor (memoize or s) stored
Cached_invalidate_cb(self, prev, cur) ==
    IF self = s_static THEN s_invalidate_cb(prev, cur) ELSE invalidate_cb(prev, cur)

\* C: the event callback, Fn(&mut T, Event) -> OA; None once MaxClicks is reached
callback(app_state) ==
    IF app_state < MaxClicks
    THEN [app_state |-> app_state + 1, action |-> "clicked"]
    ELSE [app_state |-> app_state, action |-> "none"]

\* an invocation noted in the context
called(c, what) == [c EXCEPT !.calls = Append(@, what)]

\* MessageResult with the values the &mut arguments are left with
MsgResult(kind, msg, calls, st, app_state) ==
    [kind |-> kind, msg |-> msg, calls |-> calls, st |-> st, app_state |-> app_state]

\* ET: build
target_build(self, c) ==
    LET i == Id_next(c)
    IN  [id |-> i.id, state |-> [built |-> self.data], element |-> self.data,
         c |-> called(i.c, "target.build")]

\* ET: the variant of a target view; data from 10 on stand for another
\* variant of the target type
target_variant(self) == IF self.data < 10 THEN "A" ELSE "B"

\* ET: rebuild; on a change of variant the target builds the new variant and
\* replaces *id, as View::rebuild's id: &mut Id allows
target_rebuild(self, prev, id, st, element, c) ==
    IF target_variant(prev) = target_variant(self)
    THEN [fl |-> IF prev.data # self.data THEN OTHER_CHANGE ELSE ChangeFlags_empty,
          id |-> id, state |-> st, element |-> self.data,
          c |-> called(c, "target.rebuild")]
    ELSE LET b == target_build(self, c)
         IN  [fl |-> tree_structure, id |-> b.id, state |-> b.state,
              element |-> b.element, c |-> b.c]

\* ET: message
target_message(self, id_path, st, message, app_state) ==
    IF id_path = <<>> /\ message = "refresh"
    THEN MsgResult("RequestRebuild", "", <<"target">>, st, app_state)
    ELSE MsgResult("Stale", message, <<>>, st, app_state)

\* event listener: build
OnClick_build(self, c) ==
    LET i == Id_next(c)
        t == target_build(self.target, i.c)
    IN  [id |-> i.id, state |-> EventListenerState(t.state, t.id, 1),
         element |-> t.element, c |-> t.c]

\* event listener: rebuild; the target's rebuild is handed id, the
\* listener's own id, and state.child_id is not assigned
OnClick_rebuild(self, prev, id, st, element, c) ==
    LET t == target_rebuild(self.target, prev.target, id, st.child_state, element, c)
    IN  IF "STRUCTURE" \in t.fl
        THEN [fl |-> t.fl \cup OTHER_CHANGE, id |-> t.id,
              state |-> EventListenerState(t.state, st.child_id, st.listener + 1),
              element |-> t.element, c |-> t.c]
        ELSE [fl |-> t.fl, id |-> t.id,
              state |-> EventListenerState(t.state, st.child_id, st.listener),
              element |-> t.element, c |-> t.c]

\* mutant of OnClick_message: the callback runs on every message that ends
\* at the listener, whatever its type
OnClick_message_eager(self, id_path, st, message, app_state) ==
    IF id_path = <<>> /\ message = "click"
    THEN MsgResult("Action", "", <<"callback">>, st, callback(app_state).app_state)
    ELSE IF id_path = <<>>
    THEN MsgResult("Stale", message, <<"callback">>, st, callback(app_state).app_state)
    ELSE MsgResult("Stale", message, <<>>, st, app_state)

\* mutant of OnClick_message: forwards to the target whatever the head of
\* the path
OnClick_message_any_child(self, id_path, st, message, app_state) ==
    IF id_path = <<>> /\ message = "click"
    THEN LET r == callback(app_state)
         IN  MsgResult(IF r.action # "none" THEN "Action" ELSE "Nop", "",
                       <<"callback">>, st, r.app_state)
    ELSE IF id_path # <<>>
    THEN LET r == target_message(self.target, Tail(id_path), st.child_state,
                                 message, app_state)
         IN  [r EXCEPT !.st = [st EXCEPT !.child_state = r.st]]
    ELSE MsgResult("Stale", message, <<>>, st, app_state)

\* event listener: message; "click" is a message of the listener's event type
OnClick_message(self, id_path, st, message, app_state) ==
    IF id_path = <<>> /\ message = "click"
    THEN LET r == callback(app_state)
         IN  MsgResult(IF r.action # "none" THEN "Action" ELSE "Nop", "",
                       <<"callback">>, st, r.app_state)
    ELSE IF id_path # <<>> /\ Head(id_path) = st.child_id
    THEN LET r == target_message(self.target, Tail(id_path), st.child_state,
                                 message, app_state)
         IN  [r EXCEPT !.st = [st EXCEPT !.child_state = r.st]]
    ELSE MsgResult("Stale", message, <<>>, st, app_state)

\* Cached: build
Cached_build(self, c) ==
    LET child == child_cb(self.data)
        b == OnClick_build(child, called(c, "child_cb"))
    IN  [id |-> b.id, state |-> CachedState(child, b.state, FALSE),
         element |-> b.element, c |-> b.c]

\* Cached: rebuild
Cached_rebuild(self, prev, id, st, element, c) ==
    IF st.dirty \/ Cached_invalidate_cb(self, prev.data, self.data)
    THEN LET child == child_cb(self.data)
             r == OnClick_rebuild(child, st.view, id, st.view_state, element,
                                  called(called(c, "child_cb"), "rebuild"))
         IN  [fl |-> r.fl, id |-> r.id, state |-> CachedState(child, r.state, FALSE),
              element |-> r.element, c |-> r.c]
    ELSE [fl |-> ChangeFlags_empty, id |-> id, state |-> [st EXCEPT !.dirty = FALSE],
          element |-> element, c |-> c]

\* mutant of Cached_message: RequestRebuild leaves no dirty mark
Cached_message_no_mark(self, id_path, st, message, app_state) ==
    LET r == OnClick_message(st.view, id_path, st.view_state, message, app_state)
    IN  [r EXCEPT !.st = [st EXCEPT !.view_state = r.st]]

\* Cached: message
Cached_message(self, id_path, st, message, app_state) ==
    LET r == OnClick_message(st.view, id_path, st.view_state, message, app_state)
    IN  [r EXCEPT !.st = [st EXCEPT !.view_state = r.st,
                                    !.dirty = IF r.kind = "RequestRebuild"
                                              THEN TRUE ELSE @]]

\* ViewSequence for V: View, V = Cached -- build
cached_seq_build(this, c) ==
    LET b == Cached_build(this, c)
    IN  [st |-> [state |-> b.state, id |-> b.id],
         c |-> es_push(b.c, Pod_new(b.element, b.id), b.id)]

\* ViewSequence for V: View, V = Cached -- rebuild
cached_seq_rebuild(this, prev, st, c) ==
    LET c1 == es_mutate(c)
        i == c.vs.ix + 1
    IN  IF c1.panic
        THEN [st |-> st, c |-> c1, fl |-> ChangeFlags_empty]
        ELSE LET r == Cached_rebuild(this, prev, st.id, st.state,
                                     c1.vs.v[i].data, c1)
             IN  [st |-> [st EXCEPT !.state = r.state, !.id = r.id],
                  c |-> [r.c EXCEPT !.vs.v[i].data = r.element],
                  fl |-> r.fl]

\* ViewSequence for V: View, V = Cached -- message
cached_seq_message(this, id_path, st, message, app_state) ==
    IF id_path # <<>> /\ Head(id_path) = st.id
    THEN LET r == Cached_message(this, Tail(id_path), st.state, message, app_state)
         IN  [r EXCEPT !.st = [st EXCEPT !.state = r.st]]
    ELSE MsgResult("Stale", message, <<>>, st, app_state)

---------------------------------------------------------------------------
(* Cx: the id path. A context is [id_path, stack, nextId, calls, last];    *)
(* stack holds a frame [fn, id, before] for every with_id / with_new_id    *)
(* call whose closure is running, before being the id path the call found, *)
(* last the call that returned last.                                       *)

\* Cx::push
Cx_push(c, id) == [c EXCEPT !.id_path = Append(@, id)]

\* mutant of Cx_pop: leaves the id path as it is
Cx_pop_nothing(c) == c

\* Cx::pop: Vec::pop, which does nothing on an empty vector
Cx_pop(c) ==
    [c EXCEPT !.id_path = IF @ = <<>> THEN @ ELSE SubSeq(@, 1, Len(@) - 1)]

\* Cx::with_id, up to the call of the closure f
with_id_enter(c, id) ==
    [Cx_push(c, id) EXCEPT
        !.stack = Append(@, [fn |-> "with_id", id |-> id, before |-> c.id_path]),
        !.last = [op |-> "enter", id |-> id, before |-> c.id_path]]

\* Cx::with_new_id, up to the call of the closure f
with_new_id_enter(c) ==
    LET i == Id_next(c)
    IN  [Cx_push(i.c, i.id) EXCEPT
            !.stack = Append(@, [fn |-> "with_new_id", id |-> i.id,
                                 before |-> c.id_path]),
            !.last = [op |-> "enter", id |-> i.id, before |-> c.id_path]]

\* Cx::with_id and Cx::with_new_id, from the return of the closure f: the
\* pop, and (for with_new_id) the id handed back
with_id_return(c) ==
    LET top == c.stack[Len(c.stack)]
    IN  [Cx_pop(c) EXCEPT
            !.stack = SubSeq(@, 1, Len(@) - 1),
            !.last = [op |-> top.fn, id |-> top.id, before |-> top.before]]

---------------------------------------------------------------------------
(* SpecSplice: one edit pass over a starting sequence L = <<1, .., n>>.     *)
(* pass.old is L, pass.consumed the number of old elements the skips,      *)
(* deletes and mutates have covered, pass.gone the old elements the        *)
(* deletes covered, pass.expected the target L' the                        *)
(* operations describe, pass.ok whether no operation asked for more old    *)
(* elements than remained.                                                 *)

---------------------------------------------------------------------------
(* DOM elements of xilem_html (crates/xilem_html/src/elements.rs).         *)
(* A DOM element is [node, name, nodes, thrown]: its identity, its tag     *)
(* name, its child nodes in document order and whether a DOM call on it    *)
(* has thrown. A child node is known by the id of the Pod that holds it    *)
(* (a Pod is built once, under a fresh id). An element view is             *)
(* [name, children], its ElementState [children_states, child_elements,    *)
(* scratch]. The views of the model carry no attributes.                   *)

\* Node.removeChild: throws when the node is not a child
remove_child(el, n) ==
    IF \E i \in DOMAIN el.nodes : el.nodes[i] = n
    THEN [el EXCEPT !.nodes = SelectSeq(@, LAMBDA x : x # n)]
    ELSE [el EXCEPT !.thrown = TRUE]

\* mutant of append_child: the node becomes the first child
append_child_in_front(el, n) ==
    [el EXCEPT !.nodes = <<n>> \o SelectSeq(@, LAMBDA x : x # n)]

\* Node.appendChild: the node becomes the last child; a node that is a child
\* already is moved there
append_child(el, n) ==
    [el EXCEPT !.nodes = Append(SelectSeq(@, LAMBDA x : x # n), n)]

\* Node.insertBefore(n, reference): the node is placed before the reference
\* child, at the end when there is none (0); throws when the reference is
\* not a child
insert_before(el, n, reference) ==
    LET rest == SelectSeq(el.nodes, LAMBDA x : x # n)
        at == {i \in DOMAIN rest : rest[i] = reference}
    IN  IF reference = 0
        THEN [el EXCEPT !.nodes = Append(rest, n)]
        ELSE IF at = {}
        THEN [el EXCEPT !.thrown = TRUE]
        ELSE LET i == CHOOSE i \in at : TRUE
             IN  [el EXCEPT !.nodes = SubSeq(rest, 1, i - 1) \o <<n>>
                                          \o SubSeq(rest, i, Len(rest))]

\* Node.textContent = null: every child node is removed
set_text_content_none(el) == [el EXCEPT !.nodes = <<>>]

\* Document.createElement
create_html_element(name, node) ==
    [node |-> node, name |-> name, nodes |-> <<>>, thrown |-> FALSE]

\* TokenSource for &NodeIds: the tokens are the ids of the Pods
tokenize(pods) == [i \in DOMAIN pods |-> pods[i].id]

\* imara_diff::diff(Algorithm::Myers, ..): the changes of the shortest edit
\* script from the tokens `before` to the tokens `after`, in ascending
\* order, as pairs of half-open ranges (from position i of before and j of
\* after on). The tokens of a list are distinct ids and the lists keep the
\* common ones in the same order, which leaves one shortest script: every
\* token of one list missing from the other belongs to a change. Lists that
\* reorder a token get one change that covers their rest.
RECURSIVE imara_diff(_, _, _, _)
imara_diff(before, after, i, j) ==
    IF i = Len(before) /\ j = Len(after)
    THEN <<>>
    ELSE IF i < Len(before) /\ j < Len(after) /\ before[i + 1] = after[j + 1]
    THEN imara_diff(before, after, i + 1, j + 1)
    ELSE LET InAfter(k) == \E m \in j + 1 .. Len(after) : after[m] = before[k]
             InBefore(k) == \E m \in i + 1 .. Len(before) : before[m] = after[k]
             b_end == CHOOSE e \in i .. Len(before) :
                          /\ \A k \in i + 1 .. e : ~InAfter(k)
                          /\ e < Len(before) => InAfter(e + 1)
             a_end == CHOOSE e \in j .. Len(after) :
                          /\ \A k \in j + 1 .. e : ~InBefore(k)
                          /\ e < Len(after) => InBefore(e + 1)
         IN  IF b_end = i /\ a_end = j
             THEN << [before |-> <<i, Len(before)>>, after |-> <<j, Len(after)>>] >>
             ELSE << [before |-> <<i, b_end>>, after |-> <<j, a_end>>] >>
                      \o imara_diff(before, after, b_end, a_end)

\* the two loops of process_change over the Pods pods[from + 1 .. to]
RECURSIVE remove_each(_, _, _, _)
remove_each(parent, pods, from, to) ==
    IF from >= to THEN parent
    ELSE remove_each(remove_child(parent, pods[from + 1].id), pods, from + 1, to)

RECURSIVE append_each(_, _, _, _)
append_each(parent, pods, from, to) ==
    IF from >= to THEN parent
    ELSE append_each(append_child(parent, pods[from + 1].id), pods, from + 1, to)

\* Sink for UpdateElement: process_change(before, after)
process_change(parent, before_ids, after_ids, change) ==
    append_each(remove_each(parent, before_ids, change.before[1], change.before[2]),
                after_ids, change.after[1], change.after[2])

\* imara_diff::diff calling the sink for each change in order
RECURSIVE diff_sink(_, _, _, _, _)
diff_sink(parent, before_ids, after_ids, changes, k) ==
    IF k > Len(changes) THEN parent
    ELSE diff_sink(process_change(parent, before_ids, after_ids, changes[k]),
                   before_ids, after_ids, changes, k + 1)

\* define_html_element / CustomElement: build (Cx::with_new_id around the
\* children's build, the children appended in order)
Element_build(self, node, c) ==
    LET i == Id_next(c)
        b == SeqBuild(self.children, i.c)
        el == append_each(create_html_element(self.name, node), b.c.vs.v, 0,
                          Len(b.c.vs.v))
    IN  [id |-> i.id,
         state |-> [children_states |-> b.st, child_elements |-> b.c.vs.v,
                    scratch |-> <<>>],
         element |-> el,
         c |-> b.c]

\* rebuild, the block under `if changed.contains(ChangeFlags::STRUCTURE)`:
\* the element's child nodes are brought in line with child_elements
update_children(element, prev_node_idxs, child_elements) ==
    IF child_elements = <<>>
    THEN set_text_content_none(element)
    ELSE diff_sink(element, prev_node_idxs, child_elements,
                   imara_diff(tokenize(prev_node_idxs), tokenize(child_elements),
                              0, 0), 1)

\* define_html_element: View::rebuild. parent is the element this one is
\* mounted in; r is what the children's rebuild through the splice returns.
Element_rebuild(self, prev, id, st, element, parent, c) ==
    CHOOSE out \in
        {LET changed0 == ChangeFlags_empty
             prev_node_idxs == st.child_elements
             changed == changed0 \cup r.fl
             st1 == [children_states |-> r.st, child_elements |-> r.c.vs.v,
                     scratch |-> r.c.vs.scratch]
         IN  [state |-> st1,
              element |-> IF tree_structure \subseteq changed
                          THEN update_children(element, prev_node_idxs,
                                               st1.child_elements)
                          ELSE element,
              parent |-> parent,
              c |-> r.c,
              structure |-> tree_structure \subseteq changed,
              fl |-> changed \ tree_structure] :
         r \in {SeqRebuild(self.children, prev.children, st.children_states,
                           [c EXCEPT !.vs = VecSplice_new(st.child_elements,
                                                          st.scratch)], <<>>)}} : TRUE

\* CustomElement::rebuild, the loop that moves the children to the new
\* element: while the old element has element children, its first child
\* node is appended to the new one. The children of the model are text
\* nodes (&'static str views), which child_element_count does not count.
is_element(n) == FALSE
RECURSIVE move_children(_, _)
move_children(element, new_element) ==
    IF \E i \in DOMAIN element.nodes : is_element(element.nodes[i])
    THEN move_children(remove_child(element, element.nodes[1]),
                       append_child(new_element, element.nodes[1]))
    ELSE new_element

\* CustomElement: View::rebuild; node is the identity Document.createElement
\* gives the next element it creates, r what the children's rebuild returns
CustomElement_rebuild(self, prev, id, st, element, parent, node, c) ==
    CHOOSE out \in
        {LET renamed == prev.name # self.name
             parent1 == IF renamed THEN remove_child(parent, element.node)
                        ELSE parent
             element1 == IF renamed
                         THEN move_children(element,
                                            create_html_element(self.name, node))
                         ELSE element
             changed0 == IF renamed THEN tree_structure ELSE ChangeFlags_empty
             prev_node_idxs == st.child_elements
             changed == changed0 \cup r.fl
             st1 == [children_states |-> r.st, child_elements |-> r.c.vs.v,
                     scratch |-> r.c.vs.scratch]
         IN  [state |-> st1,
              element |-> IF tree_structure \subseteq changed
                          THEN update_children(element1, prev_node_idxs,
                                               st1.child_elements)
                          ELSE element1,
              parent |-> parent1,
              c |-> r.c,
              structure |-> tree_structure \subseteq changed,
              fl |-> changed \ tree_structure] :
         r \in {SeqRebuild(self.children, prev.children, st.children_states,
                           [c EXCEPT !.vs = VecSplice_new(st.child_elements,
                                                          st.scratch)], <<>>)}} : TRUE

\* no element built yet
NoDom ==
    [phase |-> "new", kind |-> "html", view |-> [name |-> "", children |-> NoneView],
     id |-> 0,
     state |-> [children_states |-> NoneState, child_elements |-> <<>>,
                scratch |-> <<>>],
     element |-> create_html_element("", 0), parent |-> create_html_element("", 0),
     nextId |-> 1, nextNode |-> 1,
     last |-> [op |-> "none", fl |-> ChangeFlags_empty, structure |-> FALSE,
               view0 |-> [name |-> "", children |-> NoneView],
               child_elements0 |-> <<>>, element0 |-> create_html_element("", 0)]]

\* TreeMutation: [k, n], n being the count of a Delete or Skip and the id of
\* an Insert
EnterChildrenMarker == [k |-> "EnterChildrenMarker", n |-> 0]
TreeMutation(k, n) == [k |-> k, n |-> n]

\* Cx::skip_child
skip_child(mutations) ==
    IF mutations # <<>> /\ mutations[Len(mutations)].k = "Skip"
    THEN [mutations EXCEPT ![Len(mutations)].n = @ + 1]
    ELSE Append(mutations, TreeMutation("Skip", 1))

\* Cx::add_child
add_child(mutations, id) == Append(mutations, TreeMutation("Insert", id))

\* Cx::delete_children
delete_children(mutations, count) ==
    IF mutations # <<>> /\ mutations[Len(mutations)].k = "Delete"
    THEN [mutations EXCEPT ![Len(mutations)].n = @ + count]
    ELSE Append(mutations, TreeMutation("Delete", count))

\* Cx::child_changed
child_changed(mutations, id_before, new_id) ==
    IF id_before # new_id
    THEN add_child(delete_children(mutations, 1), new_id)
    ELSE skip_child(mutations)

\* NodeList::get(index), 0 for None
node_list_get(el, child_idx) ==
    IF child_idx < Len(el.nodes) THEN el.nodes[child_idx + 1] ELSE 0

\* apply_tree_mutations, the loop of TreeMutation::Delete without the
\* shortcut: count times the child at child_idx is removed
RECURSIVE remove_at(_, _, _)
remove_at(el, child_idx, count) ==
    IF count = 0 THEN el
    ELSE IF node_list_get(el, child_idx) = 0
    THEN [el EXCEPT !.thrown = TRUE]
    ELSE remove_at(remove_child(el, node_list_get(el, child_idx)), child_idx,
                   count - 1)

\* Cx::apply_tree_mutations, from mutation k (1-based) on; old_len is the
\* number of child nodes before the first mutation
RECURSIVE apply_from(_, _, _, _, _, _)
apply_from(el, child_elements, mutations, k, child_idx, old_len) ==
    IF k > Len(mutations) \/ el.thrown
    THEN el
    ELSE LET mutation == mutations[k]
         IN  CASE mutation.k = "Delete" ->
                    apply_from(IF mutation.n = old_len
                               THEN set_text_content_none(el)
                               ELSE remove_at(el, child_idx, mutation.n),
                               child_elements, mutations, k + 1, child_idx, old_len)
               [] mutation.k = "Skip" ->
                    apply_from(el, child_elements, mutations, k + 1,
                               child_idx + mutation.n, old_len)
               [] mutation.k = "Insert" ->
                    apply_from(IF child_idx < Len(child_elements)
                               THEN insert_before(el, child_elements[child_idx + 1].id,
                                                  node_list_get(el, child_idx))
                               ELSE [el EXCEPT !.thrown = TRUE],
                               child_elements, mutations, k + 1, child_idx + 1,
                               old_len)
               [] OTHER ->
                    apply_from(el, child_elements, mutations, k + 1, child_idx,
                               old_len)

\* Cx::apply_tree_mutations
apply_tree_mutations(el, child_elements, mutations, mutation_start_idx) ==
    apply_from(el, child_elements, mutations, mutation_start_idx + 1, 0,
               Len(el.nodes))

\* no element whose children are rebuilt yet
NoTm ==
    [phase |-> "new", el |-> create_html_element("", 0), old |-> <<>>, pos |-> 0,
     child_elements |-> <<>>, mutations |-> <<>>, mutation_start_idx |-> 0,
     structure |-> FALSE, nextId |-> 1,
     last |-> [op |-> "none", structure |-> FALSE, mutations |-> <<>>,
               old |-> <<>>, el0 |-> create_html_element("", 0)]]
---------------------------------------------------------------------------
(* Element properties of xilem_web (xilem_web/src/class.rs, attribute.rs,  *)
(* style.rs, element_props.rs). Classes, Attributes and Styles each keep a *)
(* list of modifiers with a cursor idx and the start start_idx of the      *)
(* block being written; the three share one ElementScratch. A storage is   *)
(* the record p below: modifiers, idx, start_idx, and of the scratch the   *)
(* fields class.dirty, attributes.updated (styles.updated) and was_created.*)
(* unreachable records that the unreachable! of rebuild_*_modifier was     *)
(* taken, calls the cursor after each rebuild_*_modifier call of a pass.   *)
(* A modifier is [k, name, value]: Add and Remove carry a name, Set a name *)
(* and a value, EndMarker the start index of its block in value. Vec       *)
(* indices are 0-based in the source and 1-based here, so modifiers[idx]   *)
(* of the source is p.modifiers[p.idx + 1]. style.rs repeats attribute.rs  *)
(* line by line with Style for Attribute, so Styles use the same           *)
(* operators. The element is [class_name, attributes]: class_name the set  *)
(* of classes written by set_class_name (the keys of the VecMap joined by  *)
(* spaces), attributes the value of each name, 0 when absent.              *)
Modifier(k, name, value) == [k |-> k, name |-> name, value |-> value]

EndMarker(start_idx) == Modifier("EndMarker", "", start_idx)

Names == {"a", "b"}

NewStorage ==
    [modifiers |-> <<>>, idx |-> 0, start_idx |-> 0, dirty |-> FALSE,
     updated |-> {}, was_created |-> FALSE, unreachable |-> FALSE, calls |-> <<>>]

NewElement == [class_name |-> {}, attributes |-> [n \in Names |-> 0]]

RECURSIVE class_set(_, _, _)
class_set(modifiers, i, classes) ==
    IF i > Len(modifiers) THEN classes
    ELSE class_set(modifiers, i + 1,
                   CASE modifiers[i].k = "Remove" -> classes \ {modifiers[i].name}
                     [] modifiers[i].k = "Add" -> classes \cup {modifiers[i].name}
                     [] OTHER -> classes)

(* Classes::apply_class_changes: the result is [p, el].                    *)
apply_class_changes(p, el) ==
    IF p.dirty
    THEN [p |-> [p EXCEPT !.dirty = FALSE],
          el |-> [el EXCEPT !.class_name = class_set(p.modifiers, 1, {})]]
    ELSE [p |-> p, el |-> el]

(* A mark_end that leaves an entry it finds in place.                      *)
mark_end_keeping_entry(p) ==
    IF p.idx + 1 <= Len(p.modifiers)
    THEN [p EXCEPT !.idx = p.idx + 1, !.start_idx = p.idx + 1]
    ELSE [p EXCEPT !.dirty = TRUE,
                   !.modifiers = Append(@, EndMarker(p.start_idx)),
                   !.idx = p.idx + 1, !.start_idx = p.idx + 1]

(* An entry before idx that is no EndMarker takes the unreachable! branch; *)
(* an idx beyond the list panics at the same line on the index.            *)
rebuild_class_modifier(p) ==
    IF p.idx = 0 THEN [p EXCEPT !.start_idx = 0]
    ELSE IF p.idx <= Len(p.modifiers) /\ p.modifiers[p.idx].k = "EndMarker"
         THEN [p EXCEPT !.idx = p.modifiers[p.idx].value,
                        !.start_idx = p.modifiers[p.idx].value]
         ELSE [p EXCEPT !.unreachable = TRUE]

mark_end_of_class_modifier(p) ==
    IF p.idx + 1 <= Len(p.modifiers)
    THEN IF p.modifiers[p.idx + 1] = EndMarker(p.start_idx)
         THEN [p EXCEPT !.idx = p.idx + 1, !.start_idx = p.idx + 1]
         ELSE [p EXCEPT !.dirty = TRUE,
                        !.modifiers[p.idx + 1] = EndMarker(p.start_idx),
                        !.idx = p.idx + 1, !.start_idx = p.idx + 1]
    ELSE [p EXCEPT !.dirty = TRUE,
                   !.modifiers = Append(@, EndMarker(p.start_idx)),
                   !.idx = p.idx + 1, !.start_idx = p.idx + 1]

add_class(p, class_name) ==
    IF p.idx + 1 <= Len(p.modifiers)
    THEN IF p.modifiers[p.idx + 1] = Modifier("Add", class_name, 0)
         THEN [p EXCEPT !.idx = p.idx + 1]
         ELSE [p EXCEPT !.dirty = TRUE,
                        !.modifiers[p.idx + 1] = Modifier("Add", class_name, 0),
                        !.idx = p.idx + 1]
    ELSE [p EXCEPT !.dirty = TRUE,
                   !.modifiers = Append(@, Modifier("Add", class_name, 0)),
                   !.idx = p.idx + 1]

remove_class(p, class_name) ==
    IF p.idx + 1 <= Len(p.modifiers)
    THEN IF p.modifiers[p.idx + 1] = Modifier("Remove", class_name, 0)
         THEN [p EXCEPT !.idx = p.idx + 1]
         ELSE [p EXCEPT !.dirty = TRUE,
                        !.modifiers[p.idx + 1] = Modifier("Remove", class_name, 0),
                        !.idx = p.idx + 1]
    ELSE [p EXCEPT !.dirty = TRUE,
                   !.modifiers = Append(@, Modifier("Remove", class_name, 0)),
                   !.idx = p.idx + 1]

(* The free functions set_attribute and remove_attribute of attribute.rs   *)
(* (set_style and remove_style of style.rs) on the DOM element.            *)
element_set_attribute(el, name, value) == [el EXCEPT !.attributes[name] = value]

element_remove_attribute(el, name) == [el EXCEPT !.attributes[name] = 0]

RECURSIVE apply_all(_, _, _)
apply_all(modifiers, i, el) ==
    IF i > Len(modifiers) THEN el
    ELSE apply_all(modifiers, i + 1,
                   CASE modifiers[i].k = "Remove" ->
                            element_remove_attribute(el, modifiers[i].name)
                     [] modifiers[i].k = "Set" ->
                            element_set_attribute(el, modifiers[i].name, modifiers[i].value)
                     [] OTHER -> el)

(* The reverse walk over the modifiers: the result is [updated, el].       *)
RECURSIVE apply_updated(_, _, _, _)
apply_updated(modifiers, i, updated, el) ==
    IF i < 1 THEN [updated |-> updated, el |-> el]
    ELSE IF modifiers[i].k = "Remove" /\ modifiers[i].name \in updated
         THEN apply_updated(modifiers, i - 1, updated \ {modifiers[i].name},
                            element_remove_attribute(el, modifiers[i].name))
    ELSE IF modifiers[i].k = "Set" /\ modifiers[i].name \in updated
         THEN apply_updated(modifiers, i - 1, updated \ {modifiers[i].name},
                            element_set_attribute(el, modifiers[i].name, modifiers[i].value))
    ELSE apply_updated(modifiers, i - 1, updated, el)

(* Attributes::apply_attribute_changes (Styles::apply_style_changes): the  *)
(* result is [p, el, assert_failed], assert_failed telling whether the     *)
(* debug_assert!(updated.is_empty()) of the branch taken fails. A build    *)
(* without debug assertions goes on with the state left behind, which is   *)
(* the state returned here.                                                *)
apply_attribute_changes(p, el) ==
    IF p.was_created
    THEN [p |-> p, el |-> apply_all(p.modifiers, 1, el), assert_failed |-> p.updated # {}]
    ELSE IF p.updated # {}
    THEN CHOOSE out \in
             {[p |-> [p EXCEPT !.updated = r.updated], el |-> r.el,
               assert_failed |-> r.updated # {}] :
              r \in {apply_updated(p.modifiers, Len(p.modifiers), p.updated, el)}} : TRUE
    ELSE [p |-> p, el |-> el, assert_failed |-> FALSE]

(* value = 0 is None.                                                      *)
set_attribute(p, name, value) ==
    LET new_modifier == IF value # 0 THEN Modifier("Set", name, value)
                        ELSE Modifier("Remove", name, 0)
    IN  IF p.was_created
        THEN [p EXCEPT !.modifiers = Append(@, new_modifier), !.idx = p.idx + 1]
        ELSE IF p.idx + 1 <= Len(p.modifiers)
        THEN IF p.modifiers[p.idx + 1] # new_modifier
             THEN [p EXCEPT
                     !.updated = (@ \cup (IF /\ p.modifiers[p.idx + 1].k \in {"Remove", "Set"}
                                             /\ name # p.modifiers[p.idx + 1].name
                                          THEN {p.modifiers[p.idx + 1].name} ELSE {}))
                                 \cup {name},
                     !.modifiers[p.idx + 1] = new_modifier,
                     !.idx = p.idx + 1]
             ELSE [p EXCEPT !.idx = p.idx + 1]
        ELSE [p EXCEPT !.updated = @ \cup {name},
                       !.modifiers = Append(@, new_modifier),
                       !.idx = p.idx + 1]

rebuild_attribute_modifier(p) ==
    IF p.idx = 0 THEN [p EXCEPT !.start_idx = 0]
    ELSE IF p.idx <= Len(p.modifiers) /\ p.modifiers[p.idx].k = "EndMarker"
         THEN [p EXCEPT !.idx = p.modifiers[p.idx].value,
                        !.start_idx = p.modifiers[p.idx].value]
         ELSE [p EXCEPT !.unreachable = TRUE]

mark_end_of_attribute_modifier(p) ==
    IF p.idx + 1 <= Len(p.modifiers)
    THEN IF p.modifiers[p.idx + 1] = EndMarker(p.start_idx)
         THEN [p EXCEPT !.idx = p.idx + 1, !.start_idx = p.idx + 1]
         ELSE [p EXCEPT !.modifiers[p.idx + 1] = EndMarker(p.start_idx),
                        !.idx = p.idx + 1, !.start_idx = p.idx + 1]
    ELSE [p EXCEPT !.modifiers = Append(@, EndMarker(p.start_idx)),
                   !.idx = p.idx + 1, !.start_idx = p.idx + 1]

(* Pod::new_element: the element is created and the scratch marked.        *)
new_element(p) == [p EXCEPT !.was_created = TRUE]

(* What a rebuild_*_modifier call of view d found before the cursor of p0  *)
(* and the cursor it left behind in p.                                     *)
logged(p0, p, d) ==
    [p EXCEPT !.calls =
        Append(@, [view |-> d,
                   found |-> /\ p0.idx >= 1 /\ p0.idx <= Len(p0.modifiers)
                             /\ p0.modifiers[p0.idx].k = "EndMarker",
                   idx |-> p.idx, start_idx |-> p.start_idx,
                   unreachable |-> p.unreachable])]

RECURSIVE add_classes(_, _, _)
add_classes(p, classes, i) ==
    IF i > Len(classes) THEN p ELSE add_classes(add_class(p, classes[i]), classes, i + 1)

RECURSIVE set_styles(_, _, _)
set_styles(p, styles, i) ==
    IF i > Len(styles) THEN p
    ELSE set_styles(set_attribute(p, styles[i].name, styles[i].value), styles, i + 1)

(* The modifier views around one element: self[d] is the payload of the    *)
(* d-th view from the inside, self[1] wrapping the element itself. The     *)
(* payload of a Class view is the list class_iter yields, that of an Attr  *)
(* view one [name, value], that of a Style view its list of [name, value]. *)
(* A panic ends the pass where it happens.                                 *)
RECURSIVE Class_build(_, _, _)
Class_build(self, d, p) ==
    CHOOSE out \in
        {mark_end_of_class_modifier(add_classes(e, self[d], 1)) :
         e \in {IF d > 1 THEN Class_build(self, d - 1, p) ELSE new_element(p)}} : TRUE

RECURSIVE Class_rebuild(_, _, _)
Class_rebuild(self, d, p) ==
    CHOOSE out \in
        {IF p1.unreachable THEN p1
         ELSE CHOOSE o2 \in
                  {IF e.unreachable THEN e
                   ELSE mark_end_of_class_modifier(add_classes(e, self[d], 1)) :
                   e \in {IF d > 1 THEN Class_rebuild(self, d - 1, p1) ELSE p1}} : TRUE :
         p1 \in {logged(p, rebuild_class_modifier(p), d)}} : TRUE

RECURSIVE Attr_build(_, _, _)
Attr_build(self, d, p) ==
    CHOOSE out \in
        {mark_end_of_attribute_modifier(set_attribute(e, self[d].name, self[d].value)) :
         e \in {IF d > 1 THEN Attr_build(self, d - 1, p) ELSE new_element(p)}} : TRUE

RECURSIVE Attr_rebuild(_, _, _)
Attr_rebuild(self, d, p) ==
    CHOOSE out \in
        {IF p1.unreachable THEN p1
         ELSE CHOOSE o2 \in
                  {IF e.unreachable THEN e
                   ELSE mark_end_of_attribute_modifier(
                            set_attribute(e, self[d].name, self[d].value)) :
                   e \in {IF d > 1 THEN Attr_rebuild(self, d - 1, p1) ELSE p1}} : TRUE :
         p1 \in {logged(p, rebuild_attribute_modifier(p), d)}} : TRUE

RECURSIVE Style_build(_, _, _)
Style_build(self, d, p) ==
    CHOOSE out \in
        {mark_end_of_attribute_modifier(set_styles(e, self[d], 1)) :
         e \in {IF d > 1 THEN Style_build(self, d - 1, p) ELSE new_element(p)}} : TRUE

RECURSIVE Style_rebuild(_, _, _)
Style_rebuild(self, d, p) ==
    CHOOSE out \in
        {IF p1.unreachable THEN p1
         ELSE CHOOSE o2 \in
                  {IF e.unreachable THEN e
                   ELSE mark_end_of_attribute_modifier(set_styles(e, self[d], 1)) :
                   e \in {IF d > 1 THEN Style_rebuild(self, d - 1, p1) ELSE p1}} : TRUE :
         p1 \in {logged(p, rebuild_attribute_modifier(p), d)}} : TRUE

(* ElementProps::update_element: the result is [p, el, assert_failed].     *)
update_element(kind, p, el) ==
    IF kind = "class"
    THEN CHOOSE out \in {[p |-> r.p, el |-> r.el, assert_failed |-> FALSE] :
                         r \in {apply_class_changes(p, el)}} : TRUE
    ELSE apply_attribute_changes(p, el)

NoProps ==
    [phase |-> "new", kind |-> "none", views |-> <<>>, p |-> NewStorage, el |-> NewElement,
     last |-> [op |-> "none", pass |-> "none", views0 |-> <<>>, el0 |-> NewElement,
               assert_failed |-> FALSE]]
---------------------------------------------------------------------------
(* The OneOfN views of xilem_html (crates/xilem_html/src/one_of.rs), here  *)
(* OneOf2<&'static str, &'static str>. A view is OneOf2(variant, t), its   *)
(* state and its element are wrapped in the variant they were built for:   *)
(* [variant, st] and [variant, data].                                      *)

\* one_of_view!: View::build
OneOfN_build(self, c) ==
    LET b == str_build(StrView(self.t), c)
    IN  [id |-> b.id,
         state |-> [variant |-> self.variant, st |-> LeafState(b.id)],
         element |-> [variant |-> self.variant, data |-> b.el],
         c |-> b.c]

\* mutant of OneOfN_rebuild: a variant change stores the new state and
\* element but leaves the id as it was
OneOfN_rebuild_keeping_id(self, prev, id, st, element, c) ==
    IF prev.variant = self.variant
    THEN IF st.variant # self.variant \/ element.variant # self.variant
         THEN [id |-> id, state |-> st, element |-> element,
               c |-> [c EXCEPT !.panic = TRUE], fl |-> ChangeFlags_empty]
         ELSE LET r == str_rebuild(StrView(self.t), StrView(prev.t), id, element.data)
              IN  [id |-> r.id, state |-> st,
                   element |-> [element EXCEPT !.data = r.data],
                   c |-> c, fl |-> r.fl]
    ELSE LET b == OneOfN_build(self, c)
         IN  [id |-> id, state |-> b.state, element |-> b.element, c |-> b.c,
              fl |-> tree_structure]

\* one_of_view!: View::rebuild
OneOfN_rebuild(self, prev, id, st, element, c) ==
    IF prev.variant = self.variant
    THEN \* Variant is the same as before
         IF st.variant # self.variant \/ element.variant # self.variant
         THEN \* throw_str("invalid state/view in OneOfN (unreachable)")
              [id |-> id, state |-> st, element |-> element,
               c |-> [c EXCEPT !.panic = TRUE], fl |-> ChangeFlags_empty]
         ELSE LET r == str_rebuild(StrView(self.t), StrView(prev.t), id, element.data)
              IN  [id |-> r.id, state |-> st,
                   element |-> [element EXCEPT !.data = r.data],
                   c |-> c, fl |-> r.fl]
    ELSE \* Variant has changed
         LET b == OneOfN_build(self, c)
         IN  [id |-> b.id, state |-> b.state, element |-> b.element, c |-> b.c,
              fl |-> tree_structure]

\* one_of_view!: View::message
OneOfN_message(self, id_path, st, r, id) ==
    IF st.variant # self.variant
    THEN \* throw_str("invalid state/view in OneOfN (unreachable)")
         [kind |-> "Panic", msg |-> r.msg, calls |-> r.calls]
    ELSE str_message(StrView(self.t), id_path, r, id)

\* ViewSequence for V: View, V = OneOf2 -- build
one_of_seq_build(this, c) ==
    LET b == OneOfN_build(this, c)
    IN  [st |-> [state |-> b.state, id |-> b.id],
         c |-> es_push(b.c, Pod_new(b.element, b.id), b.id)]

\* ViewSequence for V: View, V = OneOf2 -- rebuild
one_of_seq_rebuild(this, prev, st, c) ==
    LET c1 == es_mutate(c)
        i == c.vs.ix + 1
    IN  IF c1.panic
        THEN [st |-> st, c |-> c1, fl |-> ChangeFlags_empty]
        ELSE LET r == OneOfN_rebuild(this, prev, st.id, st.state,
                                     c1.vs.v[i].data, c1)
             IN  [st |-> [state |-> r.state, id |-> r.id],
                  c |-> [r.c EXCEPT !.vs.v[i].data = r.element],
                  fl |-> r.fl]

\* ViewSequence for V: View, V = OneOf2 -- message
one_of_seq_message(this, id_path, st, r) ==
    IF id_path # <<>> /\ Head(id_path) = st.id
    THEN OneOfN_message(this, Tail(id_path), st.state, r, st.id)
    ELSE Stale(r.msg, r.calls)

\* no OneOf2 of xilem_html built yet
NoHone ==
    [phase |-> "new", view |-> OneOf2("A", ""),
     st |-> [state |-> [variant |-> "A", st |-> NoneState], id |-> 0],
     elements |-> <<>>, nextId |-> 1, retired |-> {},
     last |-> [op |-> "none", fl |-> ChangeFlags_empty, view0 |-> OneOf2("A", ""),
               st0 |-> [state |-> [variant |-> "A", st |-> NoneState], id |-> 0],
               elements0 |-> <<>>, nextId0 |-> 1, id_path |-> <<>>, body |-> "",
               kind |-> "", msg |-> "", calls |-> <<>>]]

cur == [v |-> v, scratch |-> scratch, ix |-> ix, panic |-> lastOp.panic]

\* the old elements not yet processed that are physically present
avail(s) == saturating_sub(Len(s.v), s.ix) + Len(s.scratch)

remaining == Len(pass.old) - pass.consumed

\* old elements pass.consumed+1 .. pass.consumed+n (fewer when they run out)
next_old(n) ==
    SubSeq(pass.old, pass.consumed + 1,
           IF pass.consumed + n <= Len(pass.old) THEN pass.consumed + n ELSE Len(pass.old))

consume(n) == IF n <= remaining THEN pass.consumed + n ELSE Len(pass.old)

Apply(s, op, n) ==
    /\ v' = s.v
    /\ scratch' = s.scratch
    /\ ix' = s.ix
    /\ lastOp' = [op |-> op, n |-> n, avail |-> avail(cur), panic |-> s.panic,
                  v0 |-> v, scratch0 |-> scratch, ix0 |-> ix]
    /\ UNCHANGED seqVars
    /\ UNCHANGED oneOfVars
    /\ UNCHANGED callVars
    /\ UNCHANGED memoVars
    /\ UNCHANGED cxVars
    /\ UNCHANGED listenerVars
    /\ UNCHANGED webVars

SpliceInit ==
    /\ \E n \in 0..MaxLen : v = [i \in 1..n |-> i]
    /\ scratch = <<>>
    /\ ix = 0
    /\ pass = [old |-> v, expected |-> <<>>, consumed |-> 0, npush |-> 0,
               used |-> {}, ok |-> TRUE, gone |-> <<>>]
    /\ lastOp = [op |-> "new", n |-> 0, avail |-> Len(v), panic |-> FALSE,
                 v0 |-> v, scratch0 |-> <<>>, ix0 |-> 0]
    /\ seqType = "VecSplice" /\ view = NoneView /\ state = NoneState
    /\ nextId = 1 /\ last = "none" /\ lastMsg = "none"
    /\ oneOf = NoOneOf /\ trace = NoTrace
    /\ call = NoCall /\ memo = NoMemo /\ mtrace = NoMTrace
    /\ cx = NoCx /\ lis = NoListener /\ ltrace = NoLTrace
    /\ dom = NoDom /\ tm = NoTm /\ props = NoProps /\ hone = NoHone

\* the cursor never has to pass MaxLen + MaxPush + 1: a pass within the
\* contract ends at most at MaxLen + MaxPush
Skip(n) ==
    /\ ~lastOp.panic
    /\ ix + n <= MaxLen + MaxPush + 1
    /\ Apply(skip(cur, n), "skip", n)
    /\ pass' = [pass EXCEPT !.expected = @ \o next_old(n),
                            !.consumed = consume(n),
                            !.used = @ \cup {"skip"},
                            !.ok = @ /\ n <= remaining]

Delete(n) ==
    /\ ~lastOp.panic
    /\ Apply(delete(cur, n), "delete", n)
    /\ pass' = [pass EXCEPT !.consumed = consume(n),
                            !.gone = @ \o next_old(n),
                            !.used = @ \cup {"delete"},
                            !.ok = @ /\ n <= remaining]

Push ==
    /\ ~lastOp.panic
    /\ pass.npush < MaxPush
    /\ LET value == Len(pass.old) + pass.npush + 1
       IN  /\ Apply(push(cur, value), "push", 0)
           /\ pass' = [pass EXCEPT !.expected = Append(@, value),
                                   !.npush = @ + 1,
                                   !.used = @ \cup {"push"}]

Mutate ==
    /\ ~lastOp.panic
    /\ Apply(mutate(cur), "mutate", 1)
    /\ pass' = [pass EXCEPT !.expected = @ \o next_old(1),
                            !.consumed = consume(1),
                            !.used = @ \cup {"mutate"},
                            !.ok = @ /\ 1 <= remaining]

SpliceNext ==
    \/ \E n \in 0..(MaxLen + 1) : Skip(n)
    \/ \E n \in 0..(MaxLen + 1) : Delete(n)
    \/ Push
    \/ Mutate

SpecSplice == SpliceInit /\ [][SpliceNext]_vars

---------------------------------------------------------------------------
(* SpecSeq: a view sequence of a fixed type is built once and then rebuilt *)
(* against arbitrary views of its type, each rebuild's prev being the view *)
(* of the preceding pass; between passes messages are delivered.           *)

\* sequence types: [k, texts, max, c]
StrT(texts) == [k |-> "str", texts |-> texts, max |-> 0, c |-> <<>>]
OptT(t) == [k |-> "opt", texts |-> {}, max |-> 0, c |-> <<t>>]
VecT(t, max) == [k |-> "vec", texts |-> {}, max |-> max, c |-> <<t>>]
TupT(ts) == [k |-> "tup", texts |-> {}, max |-> 0, c |-> ts]

RECURSIVE Views(_)
RECURSIVE Products(_, _)

\* all sequences s of length Len(tys) with s[i] a view of type tys[i], i >= from
Products(tys, from) ==
    IF from > Len(tys)
    THEN {<<>>}
    ELSE {<<x>> \o rest : x \in Views(tys[from]), rest \in Products(tys, from + 1)}

\* all views of a type
Views(ty) ==
    CASE ty.k = "str" -> {StrView(t) : t \in ty.texts}
      [] ty.k = "opt" -> {NoneView} \cup {SomeView(x) : x \in Views(ty.c[1])}
      [] ty.k = "vec" ->
            UNION {{VecView(xs) : xs \in [1..n -> Views(ty.c[1])]} : n \in 0..ty.max}
      [] ty.k = "tup" -> {TupView(xs) : xs \in Products(ty.c, 1)}

\* Vec<&'static str>
WideVecT == VecT(StrT({"a"}), MaxWide)
\* Vec<Option<&'static str>>
MixedT == VecT(OptT(StrT({"a"})), MaxVec)
\* Option<(Vec<&'static str>, &'static str)>
NestedT == OptT(TupT(<<VecT(StrT({"a"}), MaxVec), StrT({"a", "b"})>>))
\* (Option<&'static str>, &'static str)
PairT == TupT(<<OptT(StrT({"a"})), StrT({"a", "b"})>>)

\* Option<&'static str>
OptionT == OptT(StrT({"a", "b"}))

\* the sequence types by name
TypeOf ==
    [name \in {"wide", "mixed", "nested", "pair", "option"} |->
        CASE name = "wide" -> WideVecT
          [] name = "mixed" -> MixedT
          [] name = "nested" -> NestedT
          [] name = "pair" -> PairT
          [] name = "option" -> OptionT]

\* the types the passes are explored over, and those messages are routed over
RootTypes == {"wide", "mixed", "nested", "pair"}
MsgRootTypes == {"wide", "nested", "pair"}

ViewsOf == [name \in RootTypes |-> Views(TypeOf[name])]

\* the case a rebuild call fell into, read off its log record
CaseOf(e) ==
    CASE e.this.k = "str" -> "single"
      [] e.this.k = "tup" -> "tuple"
      [] e.this.k = "vec" -> IF Len(e.this.c) < Len(e.prev.c) THEN "shrink"
                             ELSE IF Len(e.this.c) > Len(e.prev.c) THEN "grow"
                             ELSE "same_len"
      [] e.this.k = "none" -> IF e.prev.k = "some" THEN "some_none" ELSE "none_none"
      [] e.this.k = "some" -> IF e.prev.k = "some" THEN "some_some" ELSE "none_some"

\* the cases the rebuild calls of a pass fell into
Cases(log) == {CaseOf(log[j]) : j \in DOMAIN log}

RECURSIVE n_deleted(_, _, _)
\* the number of elements the delete operations among ops[a+1 .. b] asked for
n_deleted(ops, a, b) ==
    IF b <= a THEN 0
    ELSE n_deleted(ops, a, b - 1) + (IF ops[b].op = "delete" THEN ops[b].n ELSE 0)

\* last: the kind of the last pass, the flags it returned, whether it
\* panicked, the cases its rebuild calls fell into ("same" when the new view
\* equalled the previous one, "fresh" when the state came from a build), the
\* number of elements it asked to delete and of identifiers it allocated
NoPass == [op |-> "none", fl |-> ChangeFlags_empty, panic |-> FALSE, cases |-> {},
           del |-> 0, alloc |-> 0]
NoMsg == [op |-> "none", id_path |-> <<>>, body |-> "", kind |-> "", msg |-> "",
          calls |-> <<>>]

\* the context of a pass: Cx and the VecSplice over child_elements and scratch
NewCx(vec, scr, id) ==
    [vs |-> VecSplice_new(vec, scr), nextId |-> id, ops |-> <<>>, log |-> <<>>,
     panic |-> FALSE]

SeqInit ==
    /\ v = <<>> /\ scratch = <<>> /\ ix = 0
    /\ pass = [old |-> <<>>, expected |-> <<>>, consumed |-> 0, npush |-> 0,
               used |-> {}, ok |-> TRUE]
    /\ lastOp = NoOp
    /\ seqType \in RootTypes
    /\ view = NoneView
    /\ state = NoneState
    /\ nextId = 1
    /\ last = NoPass
    /\ lastMsg = NoMsg
    /\ oneOf = NoOneOf /\ trace = NoTrace
    /\ call = NoCall /\ memo = NoMemo /\ mtrace = NoMTrace
    /\ cx = NoCx /\ lis = NoListener /\ ltrace = NoLTrace
    /\ dom = NoDom /\ tm = NoTm /\ props = NoProps /\ hone = NoHone

\* what Cx::build_element_children does for the children `new`: Id::next()
\* for the element itself, then children.build into the empty child_elements
\* (pushes at the end of the vector)
BuildPass(new) == SeqBuild(new, Id_next(NewCx(<<>>, <<>>, nextId)).c)

\* what a rebuild pass to `new` does from the current state:
\* VecSplice::new(child_elements, scratch), then
\* children.rebuild(cx, prev_children, children_states, &mut splice)
RebuildPass(new) == SeqRebuild(new, view, state, NewCx(v, scratch, nextId), <<>>)

\* a pass has completed and left a state to rebuild from
HasState == last.op # "none" /\ ~last.panic

\* the first pass
Build(new) ==
    /\ last.op = "none"
    /\ \E r \in {BuildPass(new)} :
           /\ r.c.nextId <= MaxId + 1
           /\ v' = r.c.vs.v /\ scratch' = r.c.vs.scratch /\ ix' = r.c.vs.ix
           /\ view' = new
           /\ state' = r.st
           /\ nextId' = r.c.nextId
           /\ last' = [op |-> "build", fl |-> ChangeFlags_empty, panic |-> r.c.panic,
                       cases |-> {}, del |-> 0, alloc |-> r.c.nextId - nextId]
    /\ lastMsg' = NoMsg
    /\ UNCHANGED <<seqType, pass, lastOp, oneOf, trace, call, memo, mtrace>>
    /\ UNCHANGED <<cx, lis, ltrace>>
    /\ UNCHANGED webVars

\* a rebuild pass
Rebuild(new) ==
    /\ HasState
    /\ \E r \in {RebuildPass(new)} :
           /\ r.c.nextId <= MaxId + 1
           /\ v' = r.c.vs.v /\ scratch' = r.c.vs.scratch /\ ix' = r.c.vs.ix
           /\ view' = new
           /\ state' = r.st
           /\ nextId' = r.c.nextId
           /\ last' = [op |-> "rebuild", fl |-> r.fl, panic |-> r.c.panic,
                       cases |-> Cases(r.c.log)
                                   \cup (IF new = view THEN {"same"} ELSE {})
                                   \cup (IF new = view /\ last.op = "build"
                                         THEN {"fresh"} ELSE {}),
                       del |-> n_deleted(r.c.ops, 0, Len(r.c.ops)),
                       alloc |-> r.c.nextId - nextId]
    /\ lastMsg' = NoMsg
    /\ UNCHANGED <<seqType, pass, lastOp, oneOf, trace, call, memo, mtrace>>
    /\ UNCHANGED <<cx, lis, ltrace>>
    /\ UNCHANGED webVars

\* a message is routed through the sequence with the view of the last pass
Message(id_path, body) ==
    /\ HasState
    /\ \E r \in {SeqMessage(view, id_path, state, Stale(body, <<>>))} :
           lastMsg' = [op |-> "message", id_path |-> id_path, body |-> body,
                       kind |-> r.kind, msg |-> r.msg, calls |-> r.calls]
    /\ UNCHANGED <<v, scratch, ix, pass, lastOp, seqType, view, state, nextId, last,
                   oneOf, trace, call, memo, mtrace, cx, lis, ltrace>>
    /\ UNCHANGED webVars

\* the id paths messages arrive with: empty, or led by an identifier that
\* was handed out (to the element or to a view of the sequence)
IdPaths == {<<>>} \cup {<<i>> : i \in 1..(nextId - 1)}

\* the message bodies
Bodies == {"m1", "m2"}

\* the passes alone (routing a message changes nothing a pass reads)
SeqNext ==
    \/ \E new \in ViewsOf[seqType] : Build(new)
    \/ \E new \in ViewsOf[seqType] : Rebuild(new)

SpecSeq == SeqInit /\ [][SeqNext]_vars

\* passes and message deliveries
SeqMsgNext ==
    \/ \E new \in ViewsOf[seqType] : Build(new)
    \/ \E new \in ViewsOf[seqType] : Rebuild(new)
    \/ \E id_path \in IdPaths, body \in Bodies : Message(id_path, body)

SeqMsgInit == SeqInit /\ seqType \in MsgRootTypes

SpecSeqMsg == SeqMsgInit /\ [][SeqMsgNext]_vars

---------------------------------------------------------------------------
(* SpecOneOf: a OneOf2<A, B> at the root of the id path, used as a View    *)
(* (form "view") or as a ViewSequence (form "seq"), is built, rebuilt      *)
(* against arbitrary views, sent messages and finally torn down.           *)

\* the views of OneOf2<A, B>
OneOfViews == {OneOf2(variant, t) : variant \in {"A", "B"}, t \in {"x", "y"}}

\* the id paths messages arrive with: empty, or a generation, possibly
\* followed by a segment for the inner view
OneOfPaths ==
    {<<>>} \cup {<<g>> : g \in 0..MaxGeneration}
           \cup {<<g, 0>> : g \in 0..MaxGeneration}

NewCtx == [id_path |-> <<>>, events |-> <<>>]

OneOfInit ==
    /\ v = <<>> /\ scratch = <<>> /\ ix = 0
    /\ pass = [old |-> <<>>, expected |-> <<>>, consumed |-> 0, npush |-> 0,
               used |-> {}, ok |-> TRUE]
    /\ lastOp = NoOp
    /\ seqType = "OneOf2" /\ view = NoneView /\ state = NoneState
    /\ nextId = 1 /\ last = NoPass /\ lastMsg = NoMsg
    /\ \E form \in {"view", "seq"} : oneOf = [NoOneOf EXCEPT !.form = form]
    /\ trace = NoTrace
    /\ call = NoCall /\ memo = NoMemo /\ mtrace = NoMTrace
    /\ cx = NoCx /\ lis = NoListener /\ ltrace = NoLTrace
    /\ dom = NoDom /\ tm = NoTm /\ props = NoProps /\ hone = NoHone

\* the result r of an operation on the position becomes the new state
OneOfDone(op, new, r, phase) ==
    /\ oneOf' = [oneOf EXCEPT !.view = new,
                              !.state = r.state,
                              !.elements = r.elements,
                              !.phase = IF r.panic THEN "panicked" ELSE phase,
                              !.captured =
                                  IF /\ op = "rebuild" /\ @.held /\ ~r.panic
                                     /\ new.variant # oneOf.view.variant
                                  THEN [@ EXCEPT !.switches = @ + 1]
                                  ELSE @]
    /\ trace' = [NoTrace EXCEPT !.op = op, !.events = r.ctx.events,
                                !.gen0 = oneOf.state.generation,
                                !.prev = oneOf.view]
    /\ UNCHANGED <<v, scratch, ix, pass, lastOp>>
    /\ UNCHANGED seqVars
    /\ UNCHANGED callVars
    /\ UNCHANGED memoVars
    /\ UNCHANGED cxVars
    /\ UNCHANGED listenerVars
    /\ UNCHANGED webVars

OneOfBuild(new) ==
    /\ oneOf.phase = "new"
    /\ IF oneOf.form = "view"
       THEN LET r == OneOf2_build(new, NewCtx)
            IN  OneOfDone("build", new,
                          [state |-> r.state, elements |-> <<r.element>>,
                           ctx |-> r.ctx, panic |-> r.panic], "built")
       ELSE OneOfDone("build", new, OneOf2_seq_build(new, NewCtx, <<>>), "built")

OneOfRebuild(new) ==
    /\ oneOf.phase = "built"
    /\ (oneOf.captured.held /\ new.variant # oneOf.view.variant)
          => oneOf.captured.switches < MaxSwitches
    /\ IF oneOf.form = "view"
       THEN LET r == OneOf2_rebuild(new, oneOf.view, oneOf.state, NewCtx,
                                    oneOf.elements[1])
            IN  OneOfDone("rebuild", new,
                          [state |-> r.state, elements |-> <<r.element>>,
                           ctx |-> r.ctx, panic |-> r.panic], "built")
       ELSE OneOfDone("rebuild", new,
                      OneOf2_seq_rebuild(new, oneOf.view, oneOf.state, NewCtx,
                                         oneOf.elements), "built")

OneOfTeardown ==
    /\ oneOf.phase = "built"
    /\ IF oneOf.form = "view"
       THEN LET r == OneOf2_teardown(oneOf.view, oneOf.state, NewCtx,
                                     oneOf.elements[1])
            IN  OneOfDone("teardown", oneOf.view,
                          [state |-> oneOf.state, elements |-> <<>>,
                           ctx |-> r.ctx, panic |-> r.panic], "torn")
       ELSE LET r == OneOf2_seq_teardown(oneOf.view, oneOf.state, NewCtx,
                                         oneOf.elements)
            IN  OneOfDone("teardown", oneOf.view,
                          [state |-> oneOf.state, elements |-> r.elements,
                           ctx |-> r.ctx, panic |-> r.panic], "torn")

OneOfMessage(id_path, body) ==
    /\ oneOf.phase = "built"
    /\ LET r == IF oneOf.form = "view"
                THEN OneOf2_message(oneOf.view, oneOf.state, id_path, body)
                ELSE OneOf2_seq_message(oneOf.view, oneOf.state, id_path, body)
       IN  /\ trace' = [NoTrace EXCEPT !.op = "message",
                                       !.gen0 = oneOf.state.generation,
                                       !.prev = oneOf.view,
                                       !.id_path = id_path, !.body = body,
                                       !.kind = r.kind, !.msg = r.msg,
                                       !.calls = r.calls,
                                       !.captured = oneOf.captured]
           /\ oneOf' = [oneOf EXCEPT !.phase = IF r.kind = "Panic" THEN "panicked"
                                               ELSE "built"]
    /\ UNCHANGED <<v, scratch, ix, pass, lastOp>>
    /\ UNCHANGED seqVars
    /\ UNCHANGED callVars
    /\ UNCHANGED memoVars
    /\ UNCHANGED cxVars
    /\ UNCHANGED listenerVars
    /\ UNCHANGED webVars

\* an id path to the inner view is captured for a later message: it leads
\* with the current generation
OneOfCapture ==
    /\ oneOf.phase = "built"
    /\ oneOf' = [oneOf EXCEPT !.captured = [held |-> TRUE,
                                            gen |-> oneOf.state.generation,
                                            switches |-> 0]]
    /\ trace' = [NoTrace EXCEPT !.op = "capture",
                                !.gen0 = oneOf.state.generation,
                                !.prev = oneOf.view]
    /\ UNCHANGED <<v, scratch, ix, pass, lastOp>>
    /\ UNCHANGED seqVars
    /\ UNCHANGED callVars
    /\ UNCHANGED memoVars
    /\ UNCHANGED cxVars
    /\ UNCHANGED listenerVars
    /\ UNCHANGED webVars

OneOfNext ==
    \/ \E new \in OneOfViews : OneOfBuild(new)
    \/ \E new \in OneOfViews : OneOfRebuild(new)
    \/ \E id_path \in OneOfPaths, body \in Bodies : OneOfMessage(id_path, body)
    \/ OneOfCapture
    \/ OneOfTeardown

SpecOneOf == OneOfInit /\ [][OneOfNext]_vars

---------------------------------------------------------------------------
(* SpecCall: rebuild, message and count applied as plain functions to a    *)
(* value of the sequence's State type and to arbitrary views of the        *)
(* sequence's type; the state need not have come from a pass over those    *)
(* views (the functions are public and take the state as an argument).     *)
(* One function is applied to each state drawn.                            *)

\* the types the functions are applied over
CallTypes == {"option", "mixed", "pair"}

CallViewsOf == [name \in CallTypes |-> Views(TypeOf[name])]

RECURSIVE States(_)
RECURSIVE StateProducts(_, _)

\* all sequences s of length Len(tys) with s[i] a state of type tys[i], i >= from
StateProducts(tys, from) ==
    IF from > Len(tys)
    THEN {<<>>}
    ELSE {<<x>> \o rest : x \in States(tys[from]), rest \in StateProducts(tys, from + 1)}

\* all values of the State type of a sequence type, over the ids 1..MaxCallId
States(ty) ==
    CASE ty.k = "str" -> {LeafState(id) : id \in 1..MaxCallId}
      [] ty.k = "opt" -> {NoneState} \cup {SomeState(x) : x \in States(ty.c[1])}
      [] ty.k = "vec" ->
            UNION {{VecState(xs) : xs \in [1..n -> States(ty.c[1])]} : n \in 0..ty.max}
      [] ty.k = "tup" -> {TupState(xs) : xs \in StateProducts(ty.c, 1)}

RECURSIVE ElementsOf(_)
RECURSIVE ElementsOfEach(_, _)

\* the elements of the children states sts[i..], in order
ElementsOfEach(sts, i) ==
    IF i > Len(sts) THEN <<>> ELSE ElementsOf(sts[i]) \o ElementsOfEach(sts, i + 1)

\* the elements a state owns: one text node per single view, in order
ElementsOf(st) ==
    IF st.k = "leaf" THEN <<Pod_new("a", st.id)>> ELSE ElementsOfEach(st.c, 1)

CallInit ==
    /\ v = <<>> /\ scratch = <<>> /\ ix = 0
    /\ pass = [old |-> <<>>, expected |-> <<>>, consumed |-> 0, npush |-> 0,
               used |-> {}, ok |-> TRUE]
    /\ lastOp = NoOp
    /\ seqType = "call" /\ view = NoneView /\ state = NoneState
    /\ nextId = 1 /\ last = NoPass /\ lastMsg = NoMsg
    /\ oneOf = NoOneOf /\ trace = NoTrace
    /\ \E ty \in CallTypes : \E st \in States(TypeOf[ty]) :
           call = [NoCall EXCEPT !.ty = ty, !.st = st, !.els = ElementsOf(st)]
    /\ memo = NoMemo /\ mtrace = NoMTrace
    /\ cx = NoCx /\ lis = NoListener /\ ltrace = NoLTrace
    /\ dom = NoDom /\ tm = NoTm /\ props = NoProps /\ hone = NoHone

\* what was applied to the state drawn and what it returned
CallDone(fn, this, prev, id_path, body, out) ==
    /\ call' = [fn |-> fn, ty |-> call.ty, st |-> call.st, els |-> call.els,
                this |-> this, prev |-> prev, id_path |-> id_path, body |-> body,
                panic |-> out.panic, n |-> out.n, kind |-> out.kind, msg |-> out.msg,
                calls |-> out.calls, fl |-> out.fl, log |-> out.log]
    /\ UNCHANGED <<v, scratch, ix, pass, lastOp>>
    /\ UNCHANGED seqVars
    /\ UNCHANGED oneOfVars
    /\ UNCHANGED memoVars
    /\ UNCHANGED cxVars
    /\ UNCHANGED listenerVars
    /\ UNCHANGED webVars

\* this.rebuild(cx, prev, &mut state, &mut splice) over the state's elements
CallRebuild(this, prev) ==
    /\ call.fn = "none"
    /\ \E r \in {SeqRebuild(this, prev, call.st,
                            NewCx(call.els, <<>>, MaxCallId + 1), <<>>)} :
        CallDone("rebuild", this, prev, <<>>, "",
                 [panic |-> r.c.panic, n |-> 0, kind |-> "", msg |-> "",
                  calls |-> <<>>, fl |-> r.fl, log |-> r.c.log])

\* this.count(&state)
CallCount(this) ==
    /\ call.fn = "none"
    /\ \E r \in {SeqCount(this, call.st)} :
        CallDone("count", this, NoneView, <<>>, "",
                 [panic |-> r.panic, n |-> r.n, kind |-> "", msg |-> "",
                  calls |-> <<>>, fl |-> ChangeFlags_empty, log |-> <<>>])

\* this.message(id_path, &mut state, message, app_state)
CallMessage(this, id_path, body) ==
    /\ call.fn = "none"
    /\ \E r \in {SeqMessage(this, id_path, call.st, Stale(body, <<>>))} :
        CallDone("message", this, NoneView, id_path, body,
                 [panic |-> r.kind = "Panic", n |-> 0, kind |-> r.kind, msg |-> r.msg,
                  calls |-> r.calls, fl |-> ChangeFlags_empty, log |-> <<>>])

\* the id paths of SpecCall: empty, or led by an id a state may hold or by
\* one no state holds
CallPaths == {<<>>} \cup {<<i>> : i \in 1..(MaxCallId + 1)}

CallNext ==
    \/ \E this \in CallViewsOf[call.ty], prev \in CallViewsOf[call.ty] :
           CallRebuild(this, prev)
    \/ \E this \in CallViewsOf[call.ty] : CallCount(this)
    \/ \E this \in CallViewsOf[call.ty], id_path \in CallPaths, body \in Bodies :
           CallMessage(this, id_path, body)

SpecCall == CallInit /\ [][CallNext]_vars

---------------------------------------------------------------------------
(* SpecListener: an event listener view OnClick over a target is built,    *)
(* rebuilt against arbitrary targets and sent messages. lis.id is the id   *)
(* the parent holds for the listener (the id: &mut Id of rebuild),         *)
(* lis.target_id the id the target holds for itself.                       *)

\* the targets: two of one variant, one of the other
ListenerTargets == {Target(5), Target(6), Target(15)}

\* the id paths the listener is handed: up to two segments
ListenerPaths ==
    {<<>>} \cup {<<a>> : a \in 1..(MaxListenerId + 1)}
           \cup {<<a, b>> : a \in 1..(MaxListenerId + 1), b \in 1..2}

\* the messages: one of the listener's event type, one the target answers
\* with RequestRebuild, one of another type
ListenerBodies == {"click", "refresh", "other"}

\* the context of a build or rebuild
ListenerCx(id) == [nextId |-> id, calls |-> <<>>]

ListenerInit ==
    /\ v = <<>> /\ scratch = <<>> /\ ix = 0
    /\ pass = [old |-> <<>>, expected |-> <<>>, consumed |-> 0, npush |-> 0,
               used |-> {}, ok |-> TRUE, gone |-> <<>>]
    /\ lastOp = NoOp
    /\ seqType = "OnClick" /\ view = NoneView /\ state = NoneState
    /\ nextId = 1 /\ last = NoPass /\ lastMsg = NoMsg
    /\ oneOf = NoOneOf /\ trace = NoTrace
    /\ call = NoCall /\ memo = NoMemo /\ mtrace = NoMTrace
    /\ cx = NoCx
    /\ lis = NoListener /\ ltrace = NoLTrace
    /\ dom = NoDom /\ tm = NoTm /\ props = NoProps /\ hone = NoHone

\* what an operation on the listener leaves unchanged
ListenerFrame ==
    /\ UNCHANGED <<v, scratch, ix, pass, lastOp>>
    /\ UNCHANGED seqVars
    /\ UNCHANGED oneOfVars
    /\ UNCHANGED callVars
    /\ UNCHANGED memoVars
    /\ UNCHANGED cxVars
    /\ UNCHANGED webVars

ListenerBuild(target) ==
    /\ lis.phase = "new"
    /\ \E b \in {OnClick_build(OnClick(target), ListenerCx(lis.nextId))} :
           /\ lis' = [lis EXCEPT !.phase = "built", !.view = OnClick(target),
                                 !.id = b.id, !.st = b.state,
                                 !.element = b.element, !.nextId = b.c.nextId,
                                 !.target_id = b.state.child_id]
           /\ ltrace' = [NoLTrace EXCEPT !.op = "build", !.calls = b.c.calls]
    /\ ListenerFrame

ListenerRebuild(target) ==
    /\ lis.phase = "built"
    /\ lis.nextId <= MaxListenerId
    /\ \E r \in {OnClick_rebuild(OnClick(target), lis.view, lis.id, lis.st,
                                  lis.element, ListenerCx(lis.nextId))} :
       \E t \in {target_rebuild(target, lis.view.target, lis.target_id,
                                 lis.st.child_state, lis.element,
                                 ListenerCx(lis.nextId))} :
           /\ lis' = [lis EXCEPT !.view = OnClick(target),
                                 !.id = r.id, !.st = r.state,
                                 !.element = r.element, !.nextId = r.c.nextId,
                                 !.target_id = t.id]
           /\ ltrace' = [NoLTrace EXCEPT !.op = "rebuild", !.id0 = lis.id,
                                         !.st0 = lis.st,
                                         !.app_state0 = lis.app_state,
                                         !.target_id0 = lis.target_id,
                                         !.fl = r.fl, !.calls = r.c.calls]
    /\ ListenerFrame

ListenerMessage(id_path, body) ==
    /\ lis.phase = "built"
    /\ \E r \in {OnClick_message(lis.view, id_path, lis.st, body, lis.app_state)} :
           /\ lis' = [lis EXCEPT !.st = r.st, !.app_state = r.app_state]
           /\ ltrace' = [NoLTrace EXCEPT !.op = "message", !.id0 = lis.id,
                                         !.st0 = lis.st,
                                         !.app_state0 = lis.app_state,
                                         !.target_id0 = lis.target_id,
                                         !.id_path = id_path, !.body = body,
                                         !.kind = r.kind, !.msg = r.msg,
                                         !.calls = r.calls]
    /\ ListenerFrame

ListenerNext ==
    \/ \E target \in ListenerTargets : ListenerBuild(target)
    \/ \E target \in ListenerTargets : ListenerRebuild(target)
    \/ \E id_path \in ListenerPaths, body \in ListenerBodies :
           ListenerMessage(id_path, body)

SpecListener == ListenerInit /\ [][ListenerNext]_vars

---------------------------------------------------------------------------
(* SpecCx: closures nested in with_id and with_new_id calls on one Cx.     *)
(* A step enters a call (the closure of the innermost call in progress     *)
(* makes it) or lets the innermost closure return.                         *)

\* the ids given to with_id: ids handed out earlier by Id::next()
CxIds == {1, 2}

CxInit ==
    /\ v = <<>> /\ scratch = <<>> /\ ix = 0
    /\ pass = [old |-> <<>>, expected |-> <<>>, consumed |-> 0, npush |-> 0,
               used |-> {}, ok |-> TRUE, gone |-> <<>>]
    /\ lastOp = NoOp
    /\ seqType = "Cx" /\ view = NoneView /\ state = NoneState
    /\ nextId = 1 /\ last = NoPass /\ lastMsg = NoMsg
    /\ oneOf = NoOneOf /\ trace = NoTrace
    /\ call = NoCall /\ memo = NoMemo /\ mtrace = NoMTrace
    /\ cx = [NoCx EXCEPT !.nextId = Cardinality(CxIds) + 1]
    /\ lis = NoListener /\ ltrace = NoLTrace
    /\ dom = NoDom /\ tm = NoTm /\ props = NoProps /\ hone = NoHone

\* what a step on the Cx leaves unchanged
CxFrame ==
    /\ UNCHANGED <<v, scratch, ix, pass, lastOp>>
    /\ UNCHANGED seqVars
    /\ UNCHANGED oneOfVars
    /\ UNCHANGED callVars
    /\ UNCHANGED memoVars
    /\ UNCHANGED listenerVars
    /\ UNCHANGED webVars

CxWithId(id) ==
    /\ cx.calls < MaxCxCalls
    /\ Len(cx.stack) < MaxDepth
    /\ cx' = [with_id_enter(cx, id) EXCEPT !.calls = @ + 1]
    /\ CxFrame

CxWithNewId ==
    /\ cx.calls < MaxCxCalls
    /\ Len(cx.stack) < MaxDepth
    /\ cx' = [with_new_id_enter(cx) EXCEPT !.calls = @ + 1]
    /\ CxFrame

CxReturn ==
    /\ cx.stack # <<>>
    /\ cx' = with_id_return(cx)
    /\ CxFrame

CxNext ==
    \/ \E id \in CxIds : CxWithId(id)
    \/ CxWithNewId
    \/ CxReturn

SpecCx == CxInit /\ [][CxNext]_vars

---------------------------------------------------------------------------
(* SpecMemo: memoize(data, child_cb) or the static view s(child_cb), as    *)
(* the only child of an element, is built, rebuilt with arbitrary data of  *)
(* its type and sent messages; memo.requested notes that a message         *)
(* answered RequestRebuild since the last pass.                            *)

\* the data the memoized view is constructed with
MemoData == {5, 6}

\* the views of the type of this: D is fixed by the type, () for s(..)
MemoViews(this) ==
    IF this = s_static THEN {s_static} ELSE {Cached(data) : data \in MemoData}

\* the messages: one of the listener's event type, one the target answers
\* with RequestRebuild, one of another type
MemoBodies == {"click", "refresh", "other"}

\* the id paths: up to three segments over the two ids handed out and one
\* that was not
MemoPaths ==
    {<<>>} \cup {<<a>> : a \in 1..3} \cup {<<a, b>> : a \in 1..3, b \in 1..3}
           \cup {<<a, b, b>> : a \in 1..3, b \in 1..3}

\* the context of a pass over the element's children
MemoCx(vec, id) ==
    [vs |-> VecSplice_new(vec, <<>>), nextId |-> id, ops |-> <<>>, panic |-> FALSE,
     calls |-> <<>>]

MemoInit ==
    /\ v = <<>> /\ scratch = <<>> /\ ix = 0
    /\ pass = [old |-> <<>>, expected |-> <<>>, consumed |-> 0, npush |-> 0,
               used |-> {}, ok |-> TRUE]
    /\ lastOp = NoOp
    /\ seqType = "memo" /\ view = NoneView /\ state = NoneState
    /\ nextId = 1 /\ last = NoPass /\ lastMsg = NoMsg
    /\ oneOf = NoOneOf /\ trace = NoTrace
    /\ call = NoCall
    /\ memo = NoMemo /\ mtrace = NoMTrace
    /\ cx = NoCx /\ lis = NoListener /\ ltrace = NoLTrace
    /\ dom = NoDom /\ tm = NoTm /\ props = NoProps /\ hone = NoHone

\* what an operation leaves unchanged
MemoFrame ==
    /\ UNCHANGED <<v, scratch, ix, pass, lastOp>>
    /\ UNCHANGED seqVars
    /\ UNCHANGED oneOfVars
    /\ UNCHANGED callVars
    /\ UNCHANGED cxVars
    /\ UNCHANGED listenerVars
    /\ UNCHANGED webVars

MemoBuild(new) ==
    /\ memo.phase = "new"
    /\ \E r \in {cached_seq_build(new, MemoCx(<<>>, memo.nextId))} :
           /\ memo' = [phase |-> "built", view |-> new, st |-> r.st,
                       elements |-> r.c.vs.v, nextId |-> r.c.nextId,
                       app_state |-> memo.app_state, requested |-> FALSE]
           /\ mtrace' = [NoMTrace EXCEPT !.op = "build", !.calls = r.c.calls]
    /\ MemoFrame

MemoRebuild(new) ==
    /\ memo.phase = "built"
    /\ \E r \in {cached_seq_rebuild(new, memo.view, memo.st,
                                     MemoCx(memo.elements, memo.nextId))} :
           /\ memo' = [memo EXCEPT !.phase = IF r.c.panic THEN "panicked" ELSE "built",
                                   !.view = new,
                                   !.st = r.st,
                                   !.elements = r.c.vs.v,
                                   !.nextId = r.c.nextId,
                                   !.requested = FALSE]
           /\ mtrace' = [NoMTrace EXCEPT !.op = "rebuild",
                                         !.data0 = memo.view.data,
                                         !.dirty0 = memo.st.state.dirty,
                                         !.requested0 = memo.requested,
                                         !.elements0 = memo.elements,
                                         !.calls = r.c.calls,
                                         !.fl = r.fl]
    /\ MemoFrame

MemoMessage(id_path, body) ==
    /\ memo.phase = "built"
    /\ \E r \in {cached_seq_message(memo.view, id_path, memo.st, body,
                                     memo.app_state)} :
           /\ memo' = [memo EXCEPT !.st = r.st,
                                   !.app_state = r.app_state,
                                   !.requested = @ \/ r.kind = "RequestRebuild"]
           /\ mtrace' = [NoMTrace EXCEPT !.op = "message",
                                         !.id_path = id_path, !.body = body,
                                         !.kind = r.kind, !.msg = r.msg,
                                         !.calls = r.calls]
    /\ MemoFrame

MemoNext ==
    \/ \E new \in MemoViews(Cached(5)) \cup MemoViews(s_static) : MemoBuild(new)
    \/ \E new \in MemoViews(memo.view) : MemoRebuild(new)
    \/ \E id_path \in MemoPaths, body \in MemoBodies : MemoMessage(id_path, body)

SpecMemo == MemoInit /\ [][MemoNext]_vars

---------------------------------------------------------------------------
(* Reading a pass: r is what RebuildPass returns, L == r.c.log its rebuild  *)
(* calls, r.c.ops the splice operations it issued.                         *)

---------------------------------------------------------------------------
(* SpecElement: a DOM element view with children of type                   *)
(* (Option<&'static str>, Vec<&'static str>), either one of the elements   *)
(* of define_html_element (kind "html", the tag name is fixed) or a        *)
(* CustomElement (kind "custom", the tag name is a field of the view), is  *)
(* built, mounted in a parent element, and rebuilt against arbitrary views *)
(* of its type, each rebuild's prev being the view of the preceding pass.  *)

\* (Option<&'static str>, Vec<&'static str>)
ChildrenT == TupT(<<OptT(StrT({"a"})), VecT(StrT({"a"}), MaxChildren)>>)

\* the views of an element of either kind
ElementViews(kind) ==
    {[name |-> name, children |-> children] :
        name \in (IF kind = "html" THEN {"div"} ELSE {"x-one", "x-two"}),
        children \in Views(ChildrenT)}

ElementInit ==
    /\ v = <<>> /\ scratch = <<>> /\ ix = 0
    /\ pass = [old |-> <<>>, expected |-> <<>>, consumed |-> 0, npush |-> 0,
               used |-> {}, ok |-> TRUE]
    /\ lastOp = NoOp
    /\ seqType = "Element" /\ view = NoneView /\ state = NoneState
    /\ nextId = 1 /\ last = NoPass /\ lastMsg = NoMsg
    /\ oneOf = NoOneOf /\ trace = NoTrace
    /\ call = NoCall /\ memo = NoMemo /\ mtrace = NoMTrace
    /\ cx = NoCx /\ lis = NoListener /\ ltrace = NoLTrace
    /\ dom = NoDom /\ tm = NoTm /\ props = NoProps /\ hone = NoHone

\* the element is built and appended to its parent
ElementBuild(kind, new) ==
    /\ dom.phase = "new"
    /\ \E b \in {Element_build(new, dom.nextNode + 1, NewCx(<<>>, <<>>, dom.nextId))} :
           dom' = [dom EXCEPT
                      !.phase = "built", !.kind = kind, !.view = new, !.id = b.id,
                      !.state = b.state, !.element = b.element,
                      !.parent = append_child(create_html_element("body", dom.nextNode),
                                              b.element.node),
                      !.nextId = b.c.nextId, !.nextNode = @ + 2,
                      !.last = [NoDom.last EXCEPT !.op = "build"]]
    /\ UNCHANGED coreVars
    /\ UNCHANGED <<tm, props, hone>>

\* a rebuild pass on the element
ElementRebuild(new) ==
    /\ dom.phase = "built"
    /\ dom.nextNode <= MaxElementNode
    /\ \E r \in {IF dom.kind = "html"
                 THEN Element_rebuild(new, dom.view, dom.id, dom.state, dom.element,
                                      dom.parent, NewCx(<<>>, <<>>, dom.nextId))
                 ELSE CustomElement_rebuild(new, dom.view, dom.id, dom.state,
                                            dom.element, dom.parent, dom.nextNode,
                                            NewCx(<<>>, <<>>, dom.nextId))} :
           /\ r.c.nextId <= MaxElementId + 1
           /\ dom' = [dom EXCEPT
                         !.phase = IF r.c.panic \/ r.element.thrown \/ r.parent.thrown
                                   THEN "failed" ELSE "built",
                         !.view = new, !.state = r.state, !.element = r.element,
                         !.parent = r.parent, !.nextId = r.c.nextId,
                         !.nextNode = IF r.element.node # dom.element.node
                                      THEN @ + 1 ELSE @,
                         !.last = [op |-> "rebuild", fl |-> r.fl,
                                   structure |-> r.structure, view0 |-> dom.view,
                                   child_elements0 |-> dom.state.child_elements,
                                   element0 |-> dom.element]]
    /\ UNCHANGED coreVars
    /\ UNCHANGED <<tm, props, hone>>

ElementNext ==
    \/ \E kind \in {"html", "custom"} : \E new \in ElementViews(kind) :
           ElementBuild(kind, new)
    \/ \E new \in ElementViews(dom.kind) : ElementRebuild(new)

SpecElement == ElementInit /\ [][ElementNext]_vars

---------------------------------------------------------------------------
(* SpecMutations: Cx::rebuild_element_children on an element with up to    *)
(* MaxTmChildren children. While the children's sequence is rebuilt through*)
(* the splice it reports each step to the context: a child that is kept    *)
(* (skip_child, or child_changed with an unchanged id), a child that is    *)
(* replaced (child_changed with a new id), a new child (add_child) and     *)
(* children that are deleted (delete_children). tm.old are the children    *)
(* before the pass, tm.pos how many of them the pass has covered,          *)
(* tm.child_elements the children the splice has produced so far. When all *)
(* old children are covered the mutations are applied and truncated.       *)

\* mutations of an enclosing element that are pending while this element's
\* children are rebuilt
OuterMutations == {<<>>, <<EnterChildrenMarker, TreeMutation("Skip", 1)>>}

MutationsInit ==
    /\ v = <<>> /\ scratch = <<>> /\ ix = 0
    /\ pass = [old |-> <<>>, expected |-> <<>>, consumed |-> 0, npush |-> 0,
               used |-> {}, ok |-> TRUE]
    /\ lastOp = NoOp
    /\ seqType = "Mutations" /\ view = NoneView /\ state = NoneState
    /\ nextId = 1 /\ last = NoPass /\ lastMsg = NoMsg
    /\ oneOf = NoOneOf /\ trace = NoTrace
    /\ call = NoCall /\ memo = NoMemo /\ mtrace = NoMTrace
    /\ cx = NoCx /\ lis = NoListener /\ ltrace = NoLTrace
    /\ dom = NoDom /\ props = NoProps /\ hone = NoHone
    /\ \E n \in 0..MaxTmChildren, outer \in OuterMutations :
           LET pods == [i \in 1..n |-> Pod_new("a", i)]
           IN  tm = [NoTm EXCEPT
                        !.phase = "idle",
                        !.el = append_each(create_html_element("div", 0), pods, 0, n),
                        !.old = pods, !.mutations = outer, !.nextId = n + 1]

TmFrame ==
    /\ UNCHANGED coreVars
    /\ UNCHANGED <<dom, props, hone>>

\* rebuild_element_children up to the children's rebuild
TmEnter ==
    /\ tm.phase = "idle"
    /\ tm' = [tm EXCEPT !.phase = "pass",
                        !.mutation_start_idx = Len(tm.mutations),
                        !.mutations = Append(@, EnterChildrenMarker),
                        !.pos = 0, !.child_elements = <<>>, !.structure = FALSE,
                        !.last = [NoTm.last EXCEPT !.op = "enter"]]
    /\ TmFrame

\* the next old child is kept
TmSkip ==
    /\ tm.phase = "pass" /\ tm.pos < Len(tm.old)
    /\ tm' = [tm EXCEPT !.mutations = skip_child(@),
                        !.child_elements = Append(@, tm.old[tm.pos + 1]),
                        !.pos = @ + 1,
                        !.last = [NoTm.last EXCEPT !.op = "skip_child"]]
    /\ TmFrame

\* the next old child is rebuilt and has either kept its id or been replaced
\* by an element with a new one
TmChanged(replaced) ==
    /\ tm.phase = "pass" /\ tm.pos < Len(tm.old)
    /\ replaced => tm.nextId <= MaxTmId
    /\ LET id_before == tm.old[tm.pos + 1].id
           new_id == IF replaced THEN tm.nextId ELSE id_before
       IN  tm' = [tm EXCEPT
                     !.mutations = child_changed(@, id_before, new_id),
                     !.child_elements =
                         Append(@, IF replaced THEN Pod_new("a", new_id)
                                   ELSE tm.old[tm.pos + 1]),
                     !.pos = @ + 1,
                     !.structure = @ \/ replaced,
                     !.nextId = IF replaced THEN @ + 1 ELSE @,
                     !.last = [NoTm.last EXCEPT !.op = "child_changed"]]
    /\ TmFrame

\* a new child is pushed
TmInsert ==
    /\ tm.phase = "pass"
    /\ tm.nextId <= MaxTmId
    /\ Len(tm.child_elements) < MaxTmChildren + 1
    /\ tm' = [tm EXCEPT !.mutations = add_child(@, tm.nextId),
                        !.child_elements = Append(@, Pod_new("a", tm.nextId)),
                        !.structure = TRUE,
                        !.nextId = @ + 1,
                        !.last = [NoTm.last EXCEPT !.op = "add_child"]]
    /\ TmFrame

\* the next count old children are deleted
TmDelete(count) ==
    /\ tm.phase = "pass" /\ tm.pos + count <= Len(tm.old)
    /\ tm' = [tm EXCEPT !.mutations = delete_children(@, count),
                        !.pos = @ + count,
                        !.structure = TRUE,
                        !.last = [NoTm.last EXCEPT !.op = "delete_children"]]
    /\ TmFrame

\* rebuild_element_children after the children's rebuild
TmApply ==
    /\ tm.phase = "pass" /\ tm.pos = Len(tm.old)
    /\ \E el \in {IF tm.structure
                  THEN apply_tree_mutations(tm.el, tm.child_elements, tm.mutations,
                                            tm.mutation_start_idx)
                  ELSE tm.el} :
           tm' = [tm EXCEPT !.phase = IF el.thrown THEN "failed" ELSE "idle",
                            !.el = el,
                            !.old = tm.child_elements,
                            !.mutations = truncate(@, tm.mutation_start_idx),
                            !.last = [op |-> "apply", structure |-> tm.structure,
                                      mutations |-> tail_from(tm.mutations,
                                                              tm.mutation_start_idx),
                                      old |-> tm.old, el0 |-> tm.el]]
    /\ TmFrame

MutationsNext ==
    \/ TmEnter
    \/ TmSkip
    \/ \E replaced \in BOOLEAN : TmChanged(replaced)
    \/ TmInsert
    \/ \E count \in 1..MaxTmChildren + 1 : TmDelete(count)
    \/ TmApply

SpecMutations == MutationsInit /\ [][MutationsNext]_vars

---------------------------------------------------------------------------
(* SpecHtmlOneOf: a xilem_html OneOf2 in a sequence position is built,     *)
(* rebuilt against arbitrary views, each rebuild's prev being the view of  *)
(* the preceding pass, and sent messages. hone.retired are the ids the     *)
(* position had before its variant changes.                                *)

\* the id paths messages arrive with
HoneIdPaths ==
    {<<>>} \cup {<<i>> : i \in 1..MaxHoneId} \cup {<<i, 1>> : i \in 1..MaxHoneId}

HtmlOneOfInit ==
    /\ v = <<>> /\ scratch = <<>> /\ ix = 0
    /\ pass = [old |-> <<>>, expected |-> <<>>, consumed |-> 0, npush |-> 0,
               used |-> {}, ok |-> TRUE]
    /\ lastOp = NoOp
    /\ seqType = "HtmlOneOf" /\ view = NoneView /\ state = NoneState
    /\ nextId = 1 /\ last = NoPass /\ lastMsg = NoMsg
    /\ oneOf = NoOneOf /\ trace = NoTrace
    /\ call = NoCall /\ memo = NoMemo /\ mtrace = NoMTrace
    /\ cx = NoCx /\ lis = NoListener /\ ltrace = NoLTrace
    /\ dom = NoDom /\ tm = NoTm /\ props = NoProps /\ hone = NoHone

HoneFrame ==
    /\ UNCHANGED coreVars
    /\ UNCHANGED <<dom, tm, props>>

HoneBuild(new) ==
    /\ hone.phase = "new"
    /\ \E b \in {one_of_seq_build(new, NewCx(<<>>, <<>>, hone.nextId))} :
           hone' = [hone EXCEPT !.phase = "built", !.view = new, !.st = b.st,
                                !.elements = b.c.vs.v, !.nextId = b.c.nextId,
                                !.last = [NoHone.last EXCEPT !.op = "build"]]
    /\ HoneFrame

HoneRebuild(new) ==
    /\ hone.phase = "built"
    /\ \E r \in {one_of_seq_rebuild(new, hone.view, hone.st,
                                    NewCx(hone.elements, <<>>, hone.nextId))} :
           /\ r.c.nextId <= MaxHoneId + 1
           /\ hone' = [hone EXCEPT
                          !.phase = IF r.c.panic THEN "panicked" ELSE "built",
                          !.view = new, !.st = r.st, !.elements = r.c.vs.v,
                          !.nextId = r.c.nextId,
                          !.retired = IF new.variant # hone.view.variant
                                      THEN @ \cup {hone.st.id} ELSE @,
                          !.last = [NoHone.last EXCEPT
                                       !.op = "rebuild", !.fl = r.fl,
                                       !.view0 = hone.view, !.st0 = hone.st,
                                       !.elements0 = hone.elements,
                                       !.nextId0 = hone.nextId]]
    /\ HoneFrame

HoneMessage(id_path, body) ==
    /\ hone.phase = "built"
    /\ \E r \in {one_of_seq_message(hone.view, id_path, hone.st, Stale(body, <<>>))} :
           hone' = [hone EXCEPT
                       !.phase = IF r.kind = "Panic" THEN "panicked" ELSE "built",
                       !.last = [NoHone.last EXCEPT
                                    !.op = "message", !.id_path = id_path,
                                    !.body = body, !.kind = r.kind, !.msg = r.msg,
                                    !.calls = r.calls, !.st0 = hone.st,
                                    !.view0 = hone.view]]
    /\ HoneFrame

HtmlOneOfNext ==
    \/ \E new \in OneOfViews : HoneBuild(new)
    \/ \E new \in OneOfViews : HoneRebuild(new)
    \/ \E id_path \in HoneIdPaths, body \in Bodies : HoneMessage(id_path, body)

SpecHtmlOneOf == HtmlOneOfInit /\ [][HtmlOneOfNext]_vars

---------------------------------------------------------------------------
(* SpecModifiers: one element of xilem_web under MaxModifierViews nested   *)
(* Class, Attr or Style views. A build pass creates the element and its    *)
(* modifiers, every later pass rebuilds the same views with new payloads,  *)
(* and update_element follows each pass. The nesting and the kind of the   *)
(* views are part of the view's type and stay; what a view sets changes    *)
(* from pass to pass. was_created is cleared once the properties of the    *)
(* new element have been applied. A pass that panics ends the program.     *)
RECURSIVE ListsOver(_, _)
ListsOver(S, n) ==
    IF n = 0 THEN {<<>>}
    ELSE ListsOver(S, n - 1) \cup {Append(l, x) : l \in {m \in ListsOver(S, n - 1) : Len(m) = n - 1}, x \in S}

Payloads(kind) ==
    CASE kind = "class" -> ListsOver(Names, MaxValues)
      [] kind = "attribute" -> [name : Names, value : 0..MaxAttrValue]
      [] kind = "style" -> ListsOver([name : Names, value : 1..MaxStyleValue], MaxValues)
      [] OTHER -> {}

ModifierViews(kind, n) == [1..n -> Payloads(kind)]

modifier_build(kind, self, p) ==
    CASE kind = "class" -> Class_build(self, Len(self), p)
      [] kind = "attribute" -> Attr_build(self, Len(self), p)
      [] kind = "style" -> Style_build(self, Len(self), p)

modifier_rebuild(kind, self, p) ==
    CASE kind = "class" -> Class_rebuild(self, Len(self), p)
      [] kind = "attribute" -> Attr_rebuild(self, Len(self), p)
      [] kind = "style" -> Style_rebuild(self, Len(self), p)

ModifiersInit ==
    /\ v = <<>> /\ scratch = <<>> /\ ix = 0
    /\ pass = [old |-> <<>>, expected |-> <<>>, consumed |-> 0, npush |-> 0,
               used |-> {}, ok |-> TRUE]
    /\ lastOp = NoOp
    /\ seqType = "Modifiers" /\ view = NoneView /\ state = NoneState
    /\ nextId = 1 /\ last = NoPass /\ lastMsg = NoMsg
    /\ oneOf = NoOneOf /\ trace = NoTrace
    /\ call = NoCall /\ memo = NoMemo /\ mtrace = NoMTrace
    /\ cx = NoCx /\ lis = NoListener /\ ltrace = NoLTrace
    /\ dom = NoDom /\ tm = NoTm /\ props = NoProps /\ hone = NoHone

PropsFrame == UNCHANGED <<coreVars, dom, tm, hone>>

PropsBuild(kind, self) ==
    /\ props.phase = "new"
    /\ \E r \in {modifier_build(kind, self, NewStorage)} :
           props' = [phase |-> "pending", kind |-> kind, views |-> self, p |-> r,
                     el |-> NewElement,
                     last |-> [op |-> "build", pass |-> "build", views0 |-> <<>>,
                               el0 |-> NewElement, assert_failed |-> FALSE]]
    /\ PropsFrame

PropsRebuild(self) ==
    /\ props.phase = "applied"
    /\ \E r \in {modifier_rebuild(props.kind, self, [props.p EXCEPT !.calls = <<>>])} :
           props' = [props EXCEPT
                       !.phase = IF r.unreachable THEN "panicked" ELSE "pending",
                       !.views = self,
                       !.p = r,
                       !.last = [op |-> "rebuild", pass |-> "rebuild",
                                 views0 |-> props.views, el0 |-> props.el,
                                 assert_failed |-> FALSE]]
    /\ PropsFrame

PropsApply ==
    /\ props.phase = "pending"
    /\ \E r \in {update_element(props.kind, props.p, props.el)} :
           props' = [props EXCEPT
                       !.phase = "applied",
                       !.p = [r.p EXCEPT !.was_created = FALSE],
                       !.el = r.el,
                       !.last = [props.last EXCEPT !.op = "apply",
                                                   !.assert_failed = r.assert_failed]]
    /\ PropsFrame

ModifiersNext ==
    \/ \E kind \in {"class", "attribute", "style"} :
       \E n \in 1..MaxModifierViews :
       \E self \in ModifierViews(kind, n) : PropsBuild(kind, self)
    \/ \E self \in ModifierViews(props.kind, Len(props.views)) : PropsRebuild(self)
    \/ PropsApply

SpecModifiers == ModifiersInit /\ [][ModifiersNext]_vars

\* the rebuild calls made directly by call e: those one position below it
ChildEntries(L, e) ==
    {j \in DOMAIN L : /\ Len(L[j].pos) = Len(e.pos) + 1
                      /\ SubSeq(L[j].pos, 1, Len(e.pos)) = e.pos}

\* the rebuild call on child i of call e
ChildEntry(L, e, i) == L[CHOOSE j \in DOMAIN L : L[j].pos = Append(e.pos, i)]

\* child i of call e was rebuilt, once, with its own view, previous view and
\* state, and e stored the state that rebuild left
RebuiltInPlace(L, e, i) ==
    /\ Cardinality({j \in DOMAIN L : L[j].pos = Append(e.pos, i)}) = 1
    /\ LET k == ChildEntry(L, e, i)
       IN  /\ k.this = e.this.c[i]
           /\ k.prev = e.prev.c[i]
           /\ k.st0 = e.st0.c[i]
           /\ e.st1.c[i] = k.st1
           /\ ~k.panic

\* the indices of the splice operations call e issued itself, not through a
\* rebuild call on a child
OwnOps(L, e) ==
    {k \in (e.o0 + 1)..e.o1 :
        \A j \in ChildEntries(L, e) : ~(L[j].o0 < k /\ k <= L[j].o1)}

\* where the rebuild of the first m children of call e ended: the operations
\* issued, the next identifier and the cursor at that point
AfterPrefix(L, e, m) ==
    IF m = 0
    THEN [o |-> e.o0, id |-> e.id0, ix |-> e.ix0]
    ELSE LET k == ChildEntry(L, e, m)
         IN  [o |-> k.o1, id |-> k.id1, ix |-> k.ix1]

RECURSIVE LiveIds(_)
\* the identifiers stored in a state
LiveIds(st) ==
    IF st.k = "leaf" THEN {st.id}
    ELSE UNION {LiveIds(st.c[i]) : i \in DOMAIN st.c}

---------------------------------------------------------------------------
(* C1: an edit pass of skip, delete, push and mutate operations that       *)
(* covers the old sequence L exactly once, never asking for more old       *)
(* elements than remain, leaves the target equal to the sequence L' the    *)
(* operations describe (kept elements in order, pushed elements where they *)
(* were pushed) and the scratch buffer empty.                              *)
C1_SpliceYieldsTarget ==
    (pass.ok /\ pass.consumed = Len(pass.old))
        => (v = pass.expected /\ scratch = <<>>)

\* a pass over three old elements that used skip, delete and push, put a
\* pushed element first and an old one last, and ended with a skip (which
\* pulled the old element back from scratch)
C1_Witness ==
    /\ pass.ok
    /\ pass.consumed = Len(pass.old)
    /\ {"skip", "delete", "push"} \subseteq pass.used
    /\ Len(pass.old) = MaxLen
    /\ Len(v) >= 2
    /\ v[1] > Len(pass.old)
    /\ v[Len(v)] <= Len(pass.old)
    /\ lastOp.op = "skip"

---------------------------------------------------------------------------
(* C2: after every completed build or rebuild pass the number of elements  *)
(* in the target collection equals the count the sequence reports for its  *)
(* new view and state, and the scratch buffer is empty.                    *)
C2_CountMatchesElements ==
    (last.op \in {"build", "rebuild"} /\ ~last.panic)
        => /\ ~SeqCount(view, state).panic
           /\ Len(v) = SeqCount(view, state).n
           /\ scratch = <<>>

\* a rebuild pass that deleted elements and built new ones
C2_Witness ==
    /\ last.op = "rebuild"
    /\ "STRUCTURE" \in last.fl
    /\ last.del >= 1
    /\ last.alloc >= 1
    /\ Len(v) >= 1
    /\ Len(v) = SeqCount(view, state).n

---------------------------------------------------------------------------
(* C3: a message whose leading id-path segment differs from the OneOf2's   *)
(* current generation comes back Stale, carrying the message, and the      *)
(* inner view or sequence is never called; so after a build as A and a     *)
(* rebuild to B a message addressed with generation 0 is Stale.            *)
C3_OtherGenerationIsStale ==
    (trace.op = "message" /\ trace.id_path # <<>>
        /\ Head(trace.id_path) # trace.gen0)
        => /\ trace.kind = "Stale"
           /\ trace.msg = trace.body
           /\ trace.calls = <<>>
           /\ oneOf.phase = "built"

\* built as A, rebuilt to B (generation 1), then a message addressed with
\* generation 0 came back Stale
C3_Witness ==
    /\ trace.op = "message"
    /\ trace.id_path = <<0>>
    /\ trace.prev.variant = "B"
    /\ oneOf.state.generation = 1
    /\ oneOf.state.inner_state.st.path = <<1>>
    /\ trace.kind = "Stale"
    /\ trace.msg = "m2"

---------------------------------------------------------------------------
(* C4: on a variant switch the rebuild of a OneOf2 (as View and as         *)
(* ViewSequence) runs, in this order and each once: the teardown of the    *)
(* old variant under the old generation on the id path, the increment of   *)
(* the generation by one (wrapping), the build of the new variant under    *)
(* the new generation, the store of the new variant's state; nothing else  *)
(* happens before or between them.                                         *)
C4_SwitchOrder ==
    (trace.op = "rebuild" /\ trace.prev.variant # oneOf.view.variant)
        => LET g0 == trace.gen0
               g1 == (g0 + 1) % (MaxGeneration + 1)
               old == trace.prev.variant
               new == oneOf.view.variant
           IN  /\ oneOf.phase = "built"
               /\ Len(trace.events) >= 4
               /\ SubSeq(trace.events, 1, 4) =
                     << [ev |-> "teardown", variant |-> old, path |-> <<g0>>, gen |-> 0],
                        [ev |-> "generation", variant |-> "", path |-> <<>>, gen |-> g1],
                        [ev |-> "build", variant |-> new, path |-> <<g1>>, gen |-> 0],
                        [ev |-> "store_state", variant |-> new, path |-> <<g1>>, gen |-> 0] >>
               /\ \A i \in 5..Len(trace.events) : trace.events[i].ev = "update_element"
               /\ oneOf.state.generation = g1
               /\ oneOf.state.inner_state = OneOf(new, [path |-> <<g1>>])

\* a OneOf2 used as a sequence switched from B at generation 1 to A
C4_Witness ==
    /\ oneOf.form = "seq"
    /\ trace.op = "rebuild"
    /\ trace.prev.variant = "B"
    /\ oneOf.view.variant = "A"
    /\ trace.gen0 = 1
    /\ oneOf.state.generation = 2
    /\ Len(trace.events) = 4

---------------------------------------------------------------------------
(* C5: a message whose id path is <<id>> for an identifier a build handed  *)
(* out is handed to exactly the view whose stored identifier is id, when   *)
(* that view is still in the sequence (in particular right after the       *)
(* build); when its position has been removed by a later rebuild the       *)
(* message comes back Stale, carrying the original body, and no view's     *)
(* message function was called.                                            *)
C5_RoutedToOwnerOrStale ==
    (lastMsg.op = "message" /\ lastMsg.id_path # <<>>)
        => IF Head(lastMsg.id_path) \in LiveIds(state)
           THEN /\ lastMsg.calls = <<Head(lastMsg.id_path)>>
                /\ lastMsg.kind = "Nop"
           ELSE /\ lastMsg.kind = "Stale"
                /\ lastMsg.msg = lastMsg.body
                /\ lastMsg.calls = <<>>

\* a rebuild removed positions (an Option went from Some to None, or a Vec
\* shrank), and a message for an identifier that build time handed out and
\* that is no longer stored came back Stale
C5_Witness ==
    /\ last.op = "rebuild"
    /\ last.cases \cap {"some_none", "shrink"} # {}
    /\ lastMsg.op = "message"
    /\ lastMsg.id_path # <<>>
    /\ Head(lastMsg.id_path) \notin LiveIds(state)
    /\ LiveIds(state) # {}
    /\ lastMsg.kind = "Stale"
    /\ lastMsg.msg = "m2"

---------------------------------------------------------------------------
(* C6: every rebuild call on an Option sequence, in every pass from every  *)
(* reachable state: None to Some builds the inner sequence at the cursor   *)
(* and returns exactly the structure flag; Some to None issues one delete  *)
(* of as many elements as the previous view counts for the stored state,   *)
(* sets the state to None and returns the structure flag; None to None     *)
(* issues no splice operation and returns empty flags; Some to Some        *)
(* returns exactly the flags of the inner rebuild.                         *)
OptionRebuildOk(r, e) ==
    LET L == r.c.log
        own == SubSeq(r.c.ops, e.o0 + 1, e.o1)
    IN  /\ ~e.panic
        /\ CASE e.prev.k = "none" /\ e.this.k = "some" ->
                  LET b == SeqBuild(e.this.c[1], NewCx(<<>>, <<>>, e.id0))
                  IN  /\ e.fl = tree_structure
                      /\ e.st1 = SomeState(b.st)
                      /\ e.id1 = b.c.nextId
                      /\ own = b.c.ops
                      /\ SubSeq(r.c.vs.v, e.ix0 + 1, e.ix1) = b.c.vs.v
                      /\ ChildEntries(L, e) = {}
             [] e.prev.k = "some" /\ e.this.k = "none" ->
                  /\ own = <<[op |-> "delete",
                              n |-> SeqCount(e.prev.c[1], e.st0.c[1]).n,
                              id |-> 0]>>
                  /\ e.st1 = NoneState
                  /\ e.fl = tree_structure
                  /\ e.ix1 = e.ix0
             [] e.prev.k = "none" /\ e.this.k = "none" ->
                  /\ own = <<>>
                  /\ e.st1 = NoneState
                  /\ e.fl = ChangeFlags_empty
             [] e.prev.k = "some" /\ e.this.k = "some" ->
                  /\ RebuiltInPlace(L, e, 1)
                  /\ e.fl = ChildEntry(L, e, 1).fl
                  /\ OwnOps(L, e) = {}

C6_OptionRebuild ==
    HasState =>
        \A new \in ViewsOf[seqType] :
            LET r == RebuildPass(new)
            IN  \A j \in DOMAIN r.c.log :
                    r.c.log[j].this.k \in {"none", "some"}
                        => OptionRebuildOk(r, r.c.log[j])

\* one pass took an Option from None to Some and another from Some to None
C6_Witness ==
    /\ last.op = "rebuild"
    /\ ~last.panic
    /\ {"none_some", "some_none"} \subseteq last.cases
    /\ last.del = 1
    /\ last.alloc = 1
    /\ "STRUCTURE" \in last.fl

---------------------------------------------------------------------------
(* C7 as stated: in every rebuild call on a Vec with m children against a  *)
(* view with n < m children, the elements deleted during the call are      *)
(* exactly the sum of the counts of the last m-n children, the state is    *)
(* truncated to n, the first n children are rebuilt in place, and no       *)
(* identifier is allocated during the call.                                *)
RECURSIVE counts(_, _, _, _)
\* the sum of the counts of the children a+1 .. b of views for states sts
counts(views, sts, a, b) ==
    IF b <= a THEN 0
    ELSE counts(views, sts, a, b - 1) + SeqCount(views[b], sts[b]).n

IsShrink(e) == e.this.k = "vec" /\ Len(e.this.c) < Len(e.prev.c)
IsGrow(e) == e.this.k = "vec" /\ Len(e.this.c) > Len(e.prev.c)

VecShrinkAsStated(r, e) ==
    LET L == r.c.log
        n == Len(e.this.c)
        m == Len(e.prev.c)
    IN  /\ n_deleted(r.c.ops, e.o0, e.o1) = counts(e.prev.c, e.st0.c, n, m)
        /\ Len(e.st1.c) = n
        /\ \A i \in 1..n : RebuiltInPlace(L, e, i)
        /\ e.id1 = e.id0

C7_VecShrinkAsStated ==
    HasState =>
        \A new \in ViewsOf[seqType] :
            LET r == RebuildPass(new)
            IN  \A j \in DOMAIN r.c.log :
                    IsShrink(r.c.log[j]) => VecShrinkAsStated(r, r.c.log[j])

(* C7: in every rebuild call on a Vec with m children against a view with  *)
(* n < m children, the first n children are rebuilt in place and no other, *)
(* then the call itself issues exactly one splice operation, a delete of   *)
(* the sum of the counts of the last m-n children, and truncates the state *)
(* to n entries; every identifier allocated during the call is allocated   *)
(* by the rebuild of one of the first n children, so that with single-view *)
(* children no identifier is allocated and exactly m-n elements are        *)
(* deleted.                                                                *)
VecShrinkOk(r, e) ==
    LET L == r.c.log
        n == Len(e.this.c)
        m == Len(e.prev.c)
        kids == ChildEntries(L, e)
    IN  /\ ~e.panic
        /\ Len(e.st0.c) = m
        /\ \A i \in 1..n : RebuiltInPlace(L, e, i)
        /\ Cardinality(kids) = n
        /\ OwnOps(L, e) = {e.o1}
        /\ r.c.ops[e.o1] = [op |-> "delete",
                            n |-> counts(e.prev.c, e.st0.c, n, m),
                            id |-> 0]
        /\ Len(e.st1.c) = n
        /\ e.id0..(e.id1 - 1) = UNION {L[j].id0..(L[j].id1 - 1) : j \in kids}
        /\ "STRUCTURE" \in e.fl
        /\ (\A i \in 1..m : e.prev.c[i].k = "str")
              => /\ e.id1 = e.id0
                 /\ n_deleted(r.c.ops, e.o0, e.o1) = m - n

C7_VecShrink ==
    HasState =>
        \A new \in ViewsOf[seqType] :
            LET r == RebuildPass(new)
            IN  \A j \in DOMAIN r.c.log :
                    IsShrink(r.c.log[j]) => VecShrinkOk(r, r.c.log[j])

\* a Vec of five single views was rebuilt against two: three elements were
\* deleted, two remain, no identifier was allocated
C7_Witness ==
    /\ seqType = "wide"
    /\ last.op = "rebuild"
    /\ "shrink" \in last.cases
    /\ last.del = 3
    /\ last.alloc = 0
    /\ Len(view.c) = 2
    /\ Len(state.c) = 2
    /\ Len(v) = 2

---------------------------------------------------------------------------
(* C8: in every rebuild call on a Vec with m children against a view with  *)
(* n > m children, the first m children are rebuilt in place and no other, *)
(* each further child is built, in list order, its elements standing       *)
(* directly after those of the first m children, one state entry is        *)
(* appended per new child, and the structure flag is returned.             *)
VecGrowOk(r, e) ==
    LET L == r.c.log
        n == Len(e.this.c)
        m == Len(e.prev.c)
        p == AfterPrefix(L, e, m)
        b == build_each(e.this.c, m + 1, n, <<>>, NewCx(<<>>, <<>>, p.id))
    IN  /\ ~e.panic
        /\ Len(e.st0.c) = m
        /\ \A i \in 1..m : RebuiltInPlace(L, e, i)
        /\ Cardinality(ChildEntries(L, e)) = m
        /\ p.ix - e.ix0 = counts(e.this.c, e.st1.c, 0, m)
        /\ Len(e.st1.c) = n
        /\ SubSeq(e.st1.c, m + 1, n) = b.st
        /\ SubSeq(r.c.ops, p.o + 1, e.o1) = b.c.ops
        /\ SubSeq(r.c.vs.v, p.ix + 1, e.ix1) = b.c.vs.v
        /\ e.id1 = b.c.nextId
        /\ "STRUCTURE" \in e.fl

C8_VecGrow ==
    HasState =>
        \A new \in ViewsOf[seqType] :
            LET r == RebuildPass(new)
            IN  \A j \in DOMAIN r.c.log :
                    IsGrow(r.c.log[j]) => VecGrowOk(r, r.c.log[j])

\* a Vec inside a tuple grew from one child: the new child's element stands
\* between the first child's and the element of the tuple's next member
C8_Witness ==
    /\ seqType = "nested"
    /\ last.op = "rebuild"
    /\ "grow" \in last.cases
    /\ last.alloc = 1
    /\ Len(v) = 3
    /\ v[2].id = nextId - 1
    /\ v[1].id < v[3].id
    /\ v[3].id < v[2].id

---------------------------------------------------------------------------
(* C9: from every state a completed pass left (a freshly built one in      *)
(* particular), rebuilding with the previous view as the new view returns  *)
(* flags without the structure flag and leaves the elements (contents,     *)
(* order, length), the scratch buffer and every stored identifier as they  *)
(* were, allocating no identifier.                                         *)
C9_RebuildSameViewIsNoOp ==
    HasState =>
        LET r == RebuildPass(view)
        IN  /\ ~r.c.panic
            /\ "STRUCTURE" \notin r.fl
            /\ r.c.vs.v = v
            /\ r.c.vs.scratch = scratch
            /\ r.st = state
            /\ r.c.nextId = nextId

\* a freshly built sequence of three elements or more was rebuilt against
\* its own view
C9_Witness ==
    /\ last.op = "rebuild"
    /\ {"same", "fresh"} \subseteq last.cases
    /\ last.fl = ChangeFlags_empty
    /\ Len(v) >= 3
    /\ LiveIds(state) = 2..(nextId - 1)

---------------------------------------------------------------------------
(* C10: a skip, delete or mutate that asks for more old elements than the  *)
(* splice still holds (in v behind the cursor plus in scratch) panics.     *)
C10_OverreachPanics ==
    (lastOp.op \in {"skip", "delete", "mutate"} /\ lastOp.n > lastOp.avail)
        => lastOp.panic

---------------------------------------------------------------------------
(* C11: Option rebuild panics whenever the stored state and the previous   *)
(* view are not both Some or both None, wherever in the sequence the       *)
(* Option sits, and the panic ends the whole rebuild; Option message and   *)
(* Option count panic whenever the state and the view they are called on   *)
(* are not both Some or both None. No such call returns a value.           *)
IsOption(x) == x.k \in {"none", "some"}

C11_OptionShapeMismatchPanics ==
    /\ call.fn = "rebuild" =>
          \A j \in DOMAIN call.log :
              LET e == call.log[j]
              IN  (IsOption(e.this) /\ e.st0.k # e.prev.k) => (e.panic /\ call.panic)
    /\ (call.fn \in {"message", "count"} /\ IsOption(call.this)
          /\ call.st.k # call.this.k) => call.panic

\* a message offered to a Some view whose state is None
C11_Witness ==
    /\ call.fn = "message"
    /\ call.ty = "option"
    /\ call.this = SomeView(StrView("b"))
    /\ call.st = NoneState
    /\ call.id_path = <<1>>
    /\ call.panic

---------------------------------------------------------------------------
(* C12: a rebuild of the memoized view whose data equals the previous      *)
(* view's data, with no dirty mark pending, invokes neither the            *)
(* view-constructing callback nor the child's rebuild, returns empty flags *)
(* and leaves the element as it was; a rebuild with changed data invokes   *)
(* the callback exactly once.                                              *)
n_calls(calls, what) == Cardinality({i \in DOMAIN calls : calls[i] = what})

C12_MemoSkipsUnchanged ==
    mtrace.op = "rebuild" =>
        /\ (~mtrace.dirty0 /\ memo.view.data = mtrace.data0)
              => /\ mtrace.calls = <<>>
                 /\ mtrace.fl = ChangeFlags_empty
                 /\ memo.elements = mtrace.elements0
        /\ memo.view.data # mtrace.data0
              => n_calls(mtrace.calls, "child_cb") = 1

\* built with data 5, a click handled, then rebuilt with data 5: nothing ran
C12_Witness ==
    /\ mtrace.op = "rebuild"
    /\ mtrace.data0 = 5 /\ memo.view.data = 5
    /\ ~mtrace.dirty0
    /\ mtrace.calls = <<>>
    /\ memo.app_state = 1
    /\ memo.elements = <<Pod_new(5, 1)>>

---------------------------------------------------------------------------
(* C13: the dirty mark is set exactly when a message routed through the    *)
(* memoized view has returned RequestRebuild since the last rebuild pass;  *)
(* a rebuild pass that finds the mark invokes the callback and rebuilds    *)
(* the child, once each, whatever the data, and clears the mark, so that a *)
(* following pass with unchanged data invokes nothing.                     *)
C13_DirtyForcesOneRebuild ==
    /\ memo.phase = "built" => memo.st.state.dirty = memo.requested
    /\ (mtrace.op = "message" /\ mtrace.kind = "RequestRebuild")
          => memo.st.state.dirty
    /\ (mtrace.op = "rebuild" /\ mtrace.requested0)
          => /\ n_calls(mtrace.calls, "child_cb") = 1
             /\ n_calls(mtrace.calls, "rebuild") = 1
             /\ ~memo.st.state.dirty
    /\ (mtrace.op = "rebuild" /\ ~mtrace.requested0
            /\ memo.view.data = mtrace.data0)
          => mtrace.calls = <<>>

\* a rebuild with unchanged data after a RequestRebuild: callback and child
\* rebuild ran
C13_Witness ==
    /\ mtrace.op = "rebuild"
    /\ mtrace.requested0 /\ mtrace.dirty0
    /\ mtrace.data0 = 6 /\ memo.view.data = 6
    /\ mtrace.calls = <<"child_cb", "rebuild", "target.rebuild">>
    /\ ~memo.st.state.dirty

---------------------------------------------------------------------------
(* C18: a message delivery whose result is Stale invokes no callback and   *)
(* no target handler, returns the message it was given, and leaves the     *)
(* sequence state (the dirty mark included), the elements and the app      *)
(* state as they were.                                                     *)
C18_StaleChangesNothing ==
    [][(mtrace'.op = "message" /\ mtrace'.kind = "Stale")
          => /\ memo' = memo
             /\ mtrace'.calls = <<>>
             /\ mtrace'.msg = mtrace'.body]_vars

\* a message of another type that reached the listener came back Stale,
\* with a click counted and a dirty mark pending
C18_Witness ==
    /\ mtrace.op = "message"
    /\ mtrace.kind = "Stale"
    /\ mtrace.id_path = <<1>>
    /\ mtrace.body = "other"
    /\ mtrace.msg = "other"
    /\ memo.app_state = 1
    /\ memo.st.state.dirty

---------------------------------------------------------------------------
(* C14 as stated: after one or more variant switches since its id path was *)
(* captured, whatever their number, a message delivered with that path     *)
(* comes back Stale.                                                       *)
DeliversCaptured ==
    /\ trace.op = "message"
    /\ trace.captured.held
    /\ trace.id_path # <<>>
    /\ Head(trace.id_path) = trace.captured.gen

C14_AnySwitchesStale ==
    (DeliversCaptured /\ trace.captured.switches >= 1) => trace.kind = "Stale"

(* C14: after at least one and fewer than 2^64 (here MaxGeneration + 1)    *)
(* variant switches since its id path was captured, a message delivered    *)
(* with that path comes back Stale, carrying the message, and the inner    *)
(* view is not called.                                                     *)
C14_FewerThanPeriodStale ==
    (DeliversCaptured /\ trace.captured.switches \in 1..MaxGeneration)
        => /\ trace.kind = "Stale"
           /\ trace.msg = trace.body
           /\ trace.calls = <<>>

\* an id path captured at generation 1 is delivered after two switches,
\* when the variant it was captured for is current again
C14_Witness ==
    /\ DeliversCaptured
    /\ trace.captured.gen = 1
    /\ trace.captured.switches = 2
    /\ trace.gen0 = 3
    /\ trace.id_path = <<1, 0>>
    /\ trace.kind = "Stale"

---------------------------------------------------------------------------
(* C15 as stated: no message delivery to a OneOf2, as View or as           *)
(* ViewSequence, aborts; every id path that does not match, the empty path *)
(* included, yields Stale carrying the message.                            *)
C15_NeverAborts ==
    trace.op = "message" =>
        /\ trace.kind # "Panic"
        /\ (trace.id_path = <<>> \/ Head(trace.id_path) # trace.gen0)
              => (trace.kind = "Stale" /\ trace.msg = trace.body)

---------------------------------------------------------------------------
(* C20: a rebuild of a OneOf2 (as View and as ViewSequence) with the same  *)
(* variant as the previous view makes exactly one call, the rebuild of     *)
(* that variant with the current generation on the id path, and leaves the *)
(* generation and the variant of the stored inner state unchanged.         *)
C20_SameVariantDelegates ==
    (trace.op = "rebuild" /\ trace.prev.variant = oneOf.view.variant)
        => /\ oneOf.phase = "built"
           /\ trace.events = << [ev |-> "rebuild", variant |-> oneOf.view.variant,
                                 path |-> <<trace.gen0>>, gen |-> 0] >>
           /\ oneOf.state.generation = trace.gen0
           /\ oneOf.state.inner_state.variant = oneOf.view.variant

\* a OneOf2 used as a sequence, at generation 2 after two switches, is
\* rebuilt from A("x") to A("y")
C20_Witness ==
    /\ oneOf.form = "seq"
    /\ trace.op = "rebuild"
    /\ trace.prev = OneOf2("A", "x")
    /\ oneOf.view = OneOf2("A", "y")
    /\ trace.gen0 = 2
    /\ oneOf.state.generation = 2
    /\ oneOf.elements = <<[variant |-> "A", data |-> "y"]>>

---------------------------------------------------------------------------
(* C16: a message given to a tuple or a Vec is offered to the children in  *)
(* order; the result is that of the first child that answers other than    *)
(* Stale, the views of no later child are called (also when a later child  *)
(* would have answered), and when no child answers the result is Stale     *)
(* carrying the message.                                                   *)
Offer(i) ==
    SeqMessage(call.this.c[i], call.id_path, call.st.c[i], Stale(call.body, <<>>))

Answering ==
    {i \in 1..zip_len(call.this.c, call.st.c) : Offer(i).kind # "Stale"}

C16_FirstAnswerWins ==
    (call.fn = "message" /\ call.this.k \in {"vec", "tup"})
        => IF Answering = {}
           THEN /\ call.kind = "Stale"
                /\ call.msg = call.body
                /\ call.calls = <<>>
           ELSE LET i == CHOOSE a \in Answering : \A b \in Answering : a <= b
                IN  /\ call.kind = Offer(i).kind
                    /\ call.msg = Offer(i).msg
                    /\ call.calls = Offer(i).calls

\* a Vec of two children whose states hold the same id: the first answers,
\* the second (which would answer too) is not called
C16_Witness ==
    /\ call.fn = "message"
    /\ call.this = VecView(<<SomeView(StrView("a")), SomeView(StrView("a"))>>)
    /\ call.st = VecState(<<SomeState(LeafState(1)), SomeState(LeafState(1))>>)
    /\ call.id_path = <<1>>
    /\ Answering = {1, 2}
    /\ call.kind = "Nop"
    /\ call.calls = <<1>>

---------------------------------------------------------------------------
(* C17: every rebuild call on a tuple, in every pass from every reachable  *)
(* state, rebuilds each position exactly once with its own view, previous  *)
(* view and state, in declaration order (each position starts where the    *)
(* one before it ended, the first where the tuple started), whatever flags *)
(* the earlier positions returned, issues no splice operation itself, and  *)
(* returns the union of the positions' flags.                              *)
TupleRebuildOk(r, e) ==
    LET L == r.c.log
        n == Len(e.this.c)
    IN  /\ ~e.panic
        /\ Cardinality(ChildEntries(L, e)) = n
        /\ \A i \in 1..n :
              /\ RebuiltInPlace(L, e, i)
              /\ LET k == ChildEntry(L, e, i)
                     a == AfterPrefix(L, e, i - 1)
                 IN  k.o0 = a.o /\ k.id0 = a.id /\ k.ix0 = a.ix
        /\ LET z == AfterPrefix(L, e, n)
           IN  e.o1 = z.o /\ e.id1 = z.id /\ e.ix1 = z.ix
        /\ OwnOps(L, e) = {}
        /\ e.fl = UNION {ChildEntry(L, e, i).fl : i \in 1..n}

C17_TupleRebuild ==
    HasState =>
        \A new \in ViewsOf[seqType] :
            LET r == RebuildPass(new)
            IN  \A j \in DOMAIN r.c.log :
                    r.c.log[j].this.k = "tup" => TupleRebuildOk(r, r.c.log[j])

\* (Some("a"), "a") rebuilt against (None, "b"): the first position
\* returned the structure flag, the second was rebuilt all the same
C17_Witness ==
    /\ seqType = "pair"
    /\ last.op = "rebuild"
    /\ ~last.panic
    /\ {"tuple", "some_none"} \subseteq last.cases
    /\ last.fl = {"STRUCTURE", "OTHER_CHANGE"}
    /\ view = TupView(<<NoneView, StrView("b")>>)
    /\ Len(v) = 1 /\ v[1].data = "b"

---------------------------------------------------------------------------
(* C19 as stated: whatever view of the sequence's type count is called     *)
(* with, it returns the number of elements the state owns.                 *)
C19_CountFromStateAlone ==
    call.fn = "count" => (~call.panic /\ call.n = Len(call.els))

---------------------------------------------------------------------------
(* Reading the last VecSplice operation: the splice it was applied to and  *)
(* the old elements it covered.                                            *)

before == [v |-> lastOp.v0, scratch |-> lastOp.scratch0, ix |-> lastOp.ix0,
           panic |-> FALSE]

\* s is a contiguous part of t
IsPartOf(s, t) ==
    \E k \in 0..(Len(t) - Len(s)) : SubSeq(t, k + 1, k + Len(s)) = s

\* the last operation was a delete(n) whose n elements were all still in
\* the tail of the target
DeleteFromTail ==
    /\ lastOp.op = "delete"
    /\ lastOp.ix0 + lastOp.n <= Len(lastOp.v0)

\* the elements delete(n) was to remove, and the ones behind them
deleted == SubSeq(lastOp.v0, lastOp.ix0 + 1, lastOp.ix0 + lastOp.n)
following == tail_from(lastOp.v0, lastOp.ix0 + lastOp.n)

---------------------------------------------------------------------------
(* C22 as stated: delete(n), when the next n old elements are still in     *)
(* the tail of the target, moves those n elements into scratch in reversed *)
(* order.                                                                  *)
C22_DeletedMovedToScratch ==
    (DeleteFromTail /\ lastOp.n >= 1) => IsPartOf(Rev(deleted), scratch)

(* C22, amended: delete(n), when the next n old elements are still in the  *)
(* tail of the target, drops those n elements (they are neither in the     *)
(* target nor in scratch afterwards) and moves the elements behind them    *)
(* to scratch in reversed order, where a later skip of the same pass finds *)
(* them again in their original order; the cursor stays.                   *)
C22_DeleteKeepsFollowing ==
    DeleteFromTail =>
        /\ ix = lastOp.ix0
        /\ v = SubSeq(lastOp.v0, 1, lastOp.ix0)
        /\ scratch = lastOp.scratch0 \o Rev(following)
        /\ \A i \in DOMAIN deleted :
               /\ \A j \in DOMAIN v : v[j] # deleted[i]
               /\ \A j \in DOMAIN scratch : scratch[j] # deleted[i]
        /\ \A k \in 1..Len(following) :
               LET s2 == skip(cur, k)
               IN  /\ s2.ix = ix + k
                   /\ SubSeq(s2.v, ix + 1, ix + k) = SubSeq(following, 1, k)

\* delete(1) at cursor 1 of <<1, 2, 3>>: element 2 is gone, element 3 went
\* to scratch
C22_Witness ==
    /\ DeleteFromTail
    /\ lastOp.n = 1
    /\ lastOp.ix0 = 1
    /\ lastOp.v0 = <<1, 2, 3>>
    /\ v = <<1>>
    /\ scratch = <<3>>

---------------------------------------------------------------------------
(* C23: skip(n), with at least n unprocessed old elements remaining,       *)
(* advances ix by n and leaves target[old ix .. old ix + n) equal to the   *)
(* next n old elements in their original order; what the target did not    *)
(* hold of them came back out of scratch, nothing being lost or reordered. *)
C23_SkipRetainsNextOld ==
    (lastOp.op = "skip" /\ pass.ok) =>
        /\ ~lastOp.panic
        /\ ix = lastOp.ix0 + lastOp.n
        /\ Len(v) >= ix
        /\ SubSeq(v, lastOp.ix0 + 1, ix)
               = SubSeq(pass.old, pass.consumed - lastOp.n + 1, pass.consumed)
        /\ SubSeq(v, 1, lastOp.ix0) = SubSeq(lastOp.v0, 1, lastOp.ix0)
        /\ v \o Rev(scratch) = lastOp.v0 \o Rev(lastOp.scratch0)
        /\ IF Len(lastOp.v0) < lastOp.ix0 + lastOp.n
           THEN Len(scratch) < Len(lastOp.scratch0)
           ELSE scratch = lastOp.scratch0

\* a push displaced old elements 1, 2, 3 to scratch; skip(2) pulled 1 and 2
\* back behind the pushed element
C23_Witness ==
    /\ lastOp.op = "skip"
    /\ pass.ok
    /\ lastOp.n = 2
    /\ lastOp.v0 = <<4>>
    /\ lastOp.scratch0 = <<3, 2, 1>>
    /\ v = <<4, 1, 2>>
    /\ scratch = <<3>>
    /\ ix = 3

---------------------------------------------------------------------------
---------------------------------------------------------------------------
(* C25: mutate(), with an unprocessed old element remaining, hands out the *)
(* next unprocessed old element, taken from the top of scratch when the    *)
(* target does not reach index ix, advances ix by 1 and changes no other   *)
(* element of the target; len() then reports the new ix.                   *)
C25_MutateNextOld ==
    (lastOp.op = "mutate" /\ pass.ok) =>
        /\ ~lastOp.panic
        /\ ix = lastOp.ix0 + 1
        /\ len(cur) = lastOp.ix0 + 1
        /\ Len(v) >= ix
        /\ v[ix] = pass.old[pass.consumed]
        /\ \A j \in DOMAIN lastOp.v0 : v[j] = lastOp.v0[j]
        /\ IF Len(lastOp.v0) = lastOp.ix0
           THEN /\ v = Append(lastOp.v0, lastOp.scratch0[Len(lastOp.scratch0)])
                /\ scratch = SubSeq(lastOp.scratch0, 1, Len(lastOp.scratch0) - 1)
           ELSE /\ v = lastOp.v0
                /\ scratch = lastOp.scratch0

\* a push displaced old elements 1, 2, 3 to scratch; mutate took element 1
\* from the top of scratch
C25_Witness ==
    /\ lastOp.op = "mutate"
    /\ pass.ok
    /\ lastOp.v0 = <<4>>
    /\ lastOp.scratch0 = <<3, 2, 1>>
    /\ v = <<4, 1>>
    /\ scratch = <<3, 2>>
    /\ len(cur) = 2

---------------------------------------------------------------------------
(* C30: at every point of an edit pass that started with an empty scratch  *)
(* and never asked for more old elements than remained, target[0..ix) is   *)
(* the new prefix the operations describe, and target[ix..] followed by    *)
(* the reverse of scratch is the not yet processed old elements in their   *)
(* original order; no element occurs twice, and every old element is       *)
(* either still held or was covered by a delete, never both.               *)

\* the elements a splice holds: target, then scratch reversed
held == v \o Rev(scratch)

Occurrences(seq, x) == Cardinality({j \in DOMAIN seq : seq[j] = x})

C30_PassInvariant ==
    pass.ok =>
        /\ ix <= Len(v)
        /\ SubSeq(v, 1, ix) = pass.expected
        /\ tail_from(v, ix) \o Rev(scratch)
               = SubSeq(pass.old, pass.consumed + 1, Len(pass.old))
        /\ \A j \in DOMAIN held : Occurrences(held, held[j]) = 1
        /\ \A i \in DOMAIN pass.old :
               Occurrences(held, pass.old[i]) + Occurrences(pass.gone, pass.old[i]) = 1

\* in the middle of a pass over <<1, 2, 3>>: an element was pushed, old
\* element 1 deleted, element 2 pulled back by a skip, and element 3 still
\* waits in scratch
C30_Witness ==
    /\ pass.ok
    /\ pass.old = <<1, 2, 3>>
    /\ {"push", "delete", "skip"} \subseteq pass.used
    /\ pass.gone = <<1>>
    /\ v = <<4, 2>>
    /\ ix = 2
    /\ scratch = <<3>>

---------------------------------------------------------------------------
(* C21: after the first build of a OneOf2, as a view or as a sequence, the *)
(* generation is 0, the inner build ran once, for the built variant, with  *)
(* generation 0 on the id path, and the stored inner state has the variant *)
(* of the built view.                                                      *)
C21_FirstBuild ==
    trace.op = "build" =>
        /\ oneOf.phase = "built"
        /\ oneOf.state.generation = 0
        /\ trace.events = << [ev |-> "build", variant |-> oneOf.view.variant,
                              path |-> <<0>>, gen |-> 0] >>
        /\ oneOf.state.inner_state.variant = oneOf.view.variant
        /\ oneOf.state.inner_state.st.path = <<0>>
        /\ oneOf.elements = <<[variant |-> oneOf.view.variant,
                               data |-> oneOf.view.t]>>

\* a OneOf2 used as a sequence was first built as B("y")
C21_Witness ==
    /\ oneOf.form = "seq"
    /\ trace.op = "build"
    /\ oneOf.view = OneOf2("B", "y")
    /\ oneOf.state = OneOfState(OneOf("B", [path |-> <<0>>]), 0)
    /\ oneOf.elements = <<[variant |-> "B", data |-> "y"]>>

---------------------------------------------------------------------------
(* C26 as stated: for a static view s(..) the view callback runs exactly   *)
(* once, when the view is built; no rebuild and no message that follows    *)
(* runs it again.                                                          *)
C26_StaticCallbackOnce ==
    memo.view = s_static =>
        /\ mtrace.op = "build" => n_calls(mtrace.calls, "child_cb") = 1
        /\ mtrace.op \in {"rebuild", "message"}
               => n_calls(mtrace.calls, "child_cb") = 0

---------------------------------------------------------------------------
(* C27: with_id and with_new_id keep the id path nested. While the closure *)
(* of a call runs, the id path is the path the call found extended by      *)
(* exactly the given (or newly allocated) id; each call in progress found  *)
(* the path the enclosing closure ran under; and when a call returns the   *)
(* id path is exactly the path it found, for any nesting of such calls.    *)
C27_IdPathNested ==
    /\ cx.stack = <<>> => cx.id_path = <<>>
    /\ cx.stack # <<>> =>
           LET top == cx.stack[Len(cx.stack)]
           IN  cx.id_path = Append(top.before, top.id)
    /\ \A k \in DOMAIN cx.stack :
           /\ Len(cx.stack[k].before) = k - 1
           /\ k > 1 => cx.stack[k].before
                          = Append(cx.stack[k - 1].before, cx.stack[k - 1].id)
    /\ cx.last.op \in {"with_id", "with_new_id"} => cx.id_path = cx.last.before
    /\ cx.last.op = "enter" => cx.id_path = Append(cx.last.before, cx.last.id)

\* inside with_id(1) a with_new_id call ran a closure under <<1, 3>> and
\* returned: the path is <<1>> again
C27_Witness ==
    /\ cx.last.op = "with_new_id"
    /\ cx.last.id = 3
    /\ cx.last.before = <<1>>
    /\ cx.id_path = <<1>>
    /\ Len(cx.stack) = 1
    /\ cx.stack[1].fn = "with_id"

---------------------------------------------------------------------------
(* C28: the message handler of an event listener invokes its callback      *)
(* exactly when the remaining path is empty and the message is of its own  *)
(* event type, answering Action when the callback yields an action and Nop *)
(* otherwise; it hands the message to its target exactly when the head of  *)
(* the path equals the stored child id, answering what the target answers; *)
(* in every other case it answers Stale with the message and changes       *)
(* nothing.                                                                *)
ForListener == ltrace.id_path = <<>> /\ ltrace.body = "click"
ForTarget == ltrace.id_path # <<>> /\ Head(ltrace.id_path) = ltrace.st0.child_id

C28_ListenerMessage ==
    ltrace.op = "message" =>
        /\ ("callback" \in {ltrace.calls[i] : i \in DOMAIN ltrace.calls}) <=> ForListener
        /\ ForListener =>
               LET r == callback(ltrace.app_state0)
               IN  /\ ltrace.calls = <<"callback">>
                   /\ ltrace.kind = IF r.action # "none" THEN "Action" ELSE "Nop"
                   /\ lis.app_state = r.app_state
        /\ ("target" \in {ltrace.calls[i] : i \in DOMAIN ltrace.calls}) => ForTarget
        /\ ForTarget =>
               LET r == target_message(lis.view.target, Tail(ltrace.id_path),
                                       ltrace.st0.child_state, ltrace.body,
                                       ltrace.app_state0)
               IN  /\ ltrace.kind = r.kind
                   /\ ltrace.msg = r.msg
                   /\ ltrace.calls = r.calls
        /\ (~ForListener /\ ~ForTarget) =>
               /\ ltrace.kind = "Stale"
               /\ ltrace.msg = ltrace.body
               /\ ltrace.calls = <<>>
               /\ lis.st = ltrace.st0
               /\ lis.app_state = ltrace.app_state0

\* a click that reached the listener after MaxClicks clicks: the callback
\* ran and yielded no action, the answer is Nop
C28_Witness ==
    /\ ltrace.op = "message"
    /\ ltrace.id_path = <<>>
    /\ ltrace.body = "click"
    /\ ltrace.calls = <<"callback">>
    /\ ltrace.kind = "Nop"
    /\ ltrace.app_state0 = MaxClicks

---------------------------------------------------------------------------
(* C29 as stated: a rebuild of an event listener leaves the id the parent  *)
(* holds for the listener unchanged; when the target's rebuild replaced    *)
(* the target's identity, the new identity is the listener state's         *)
(* child_id, so that a message for the target led by the target's id is    *)
(* handed to the target.                                                   *)
C29_ListenerRebuildKeepsRouting ==
    ltrace.op = "rebuild" =>
        /\ lis.id = ltrace.id0
        /\ lis.target_id # ltrace.target_id0 => lis.st.child_id = lis.target_id
        /\ OnClick_message(lis.view, <<lis.target_id>>, lis.st, "refresh",
                           lis.app_state).kind = "RequestRebuild"


---------------------------------------------------------------------------
(* C37: after any sequence of builds and rebuilds of a OneOf2 in which     *)
(* every rebuild is given the view of the preceding build or rebuild as    *)
(* its previous view, the stored inner state has the variant of the latest *)
(* view: no rebuild and no teardown reaches unreachable!(), count would    *)
(* not reach it, and no message with a non-empty id path does.             *)
C37_StateVariantFollowsView ==
    /\ oneOf.phase = "built"
          => /\ oneOf.state.inner_state.variant = oneOf.view.variant
             /\ ~OneOf2_count(oneOf.view, oneOf.state).panic
    /\ trace.op \in {"build", "rebuild", "teardown"} => oneOf.phase # "panicked"
    /\ (trace.op = "message" /\ trace.id_path # <<>>) => trace.kind # "Panic"

\* a OneOf2 used as a view went A -> B -> A (generation 2) and then answered
\* a message led by generation 2 from its A view
C37_Witness ==
    /\ oneOf.form = "view"
    /\ oneOf.phase = "built"
    /\ oneOf.view.variant = "A"
    /\ oneOf.state.generation = 2
    /\ oneOf.state.inner_state.variant = "A"
    /\ trace.op = "message"
    /\ trace.id_path = <<2, 0>>
    /\ trace.kind = "Action"
    /\ trace.calls # <<>> /\ trace.calls[1].variant = "A"

---------------------------------------------------------------------------
(* C31 as stated: after a rebuild of a DOM element in which the children's *)
(* sequence reported a structural change, the element's child nodes are    *)
(* the nodes of child_elements, in the same order, also when a child was   *)
(* inserted before children that are kept.                                 *)
C31_ChildNodesFollowChildElements ==
    (dom.kind = "html" /\ dom.last.op = "rebuild" /\ dom.last.structure)
        => dom.element.nodes = tokenize(dom.state.child_elements)

---------------------------------------------------------------------------
(* C38 as stated: a CustomElement rebuilt with a tag name other than the   *)
(* previous view's returns change flags that contain STRUCTURE.            *)
C38_RenameReportsStructure ==
    (dom.kind = "custom" /\ dom.last.op = "rebuild"
        /\ dom.last.view0.name # dom.view.name)
        => tree_structure \subseteq dom.last.fl

---------------------------------------------------------------------------
(* C32 as stated: for any old children of an element and any accumulated   *)
(* list of Skip / Delete / Insert mutations that describes the edit from   *)
(* the old children to child_elements, apply_tree_mutations leaves the     *)
(* element's child nodes equal to the nodes of child_elements, in order.   *)
C32_MutationsYieldChildElements ==
    (tm.last.op = "apply" /\ tm.last.structure
        /\ tm.last.el0.nodes = tokenize(tm.last.old))
        => tm.el.nodes = tokenize(tm.child_elements)

---------------------------------------------------------------------------
(* C36: in the xilem_html OneOfN views a rebuild that changes the variant  *)
(* stores a freshly built id, state and element of the new variant and     *)
(* returns STRUCTURE, a rebuild with the same variant keeps id, state      *)
(* variant and element variant and reports no structural change; a message *)
(* led by an id the position had before a variant change is answered Stale *)
(* by the enclosing sequence and reaches no view.                          *)
C36_VariantChangeRetiresId ==
    /\ (hone.last.op = "rebuild" /\ hone.last.view0.variant # hone.view.variant)
          => /\ hone.phase = "built"
             /\ hone.st.id = hone.last.nextId0
             /\ hone.st.id # hone.last.st0.id
             /\ hone.st.state = [variant |-> hone.view.variant,
                                 st |-> LeafState(hone.st.id)]
             /\ hone.elements[1].data = [variant |-> hone.view.variant,
                                         data |-> hone.view.t]
             /\ hone.last.fl = tree_structure
    /\ (hone.last.op = "rebuild" /\ hone.last.view0.variant = hone.view.variant)
          => /\ hone.phase = "built"
             /\ hone.st = hone.last.st0
             /\ hone.nextId = hone.last.nextId0
             /\ hone.elements[1].data.variant = hone.view.variant
             /\ ~(tree_structure \subseteq hone.last.fl)
    /\ (hone.last.op = "message" /\ hone.last.id_path # <<>>
           /\ Head(hone.last.id_path) \in hone.retired)
          => /\ hone.last.kind = "Stale"
             /\ hone.last.msg = hone.last.body
             /\ hone.last.calls = <<>>

\* the position was built as A under id 1 and rebuilt as B under id 2; a
\* message led by id 1 comes back Stale
C36_Witness ==
    /\ hone.last.op = "message"
    /\ hone.last.id_path = <<1, 1>>
    /\ hone.retired = {1}
    /\ hone.view.variant = "B"
    /\ hone.st.id = 2
    /\ hone.last.kind = "Stale"

---------------------------------------------------------------------------
(* The values a modifier view of the given kind sets in one pass, and the  *)
(* index at which the block of view d starts when the views below it set   *)
(* the payloads of views.                                                  *)
PayloadLen(kind, payload) == IF kind = "attribute" THEN 1 ELSE Len(payload)

RECURSIVE BlockStart(_, _, _)
BlockStart(kind, views, d) ==
    IF d <= 1 THEN 0
    ELSE BlockStart(kind, views, d - 1) + PayloadLen(kind, views[d - 1]) + 1

(* C39: in every rebuild pass, whatever the views set in the pass before   *)
(* and set now, each modifier view's rebuild_*_modifier call finds an      *)
(* EndMarker just before idx, so unreachable! is never taken, and leaves   *)
(* idx and start_idx at the start of that view's block of the pass before. *)
C39_RebuildFindsEndMarker ==
    props.last.pass = "rebuild" =>
        /\ props.phase # "panicked"
        /\ ~props.p.unreachable
        /\ Len(props.p.calls) = Len(props.views)
        /\ \A i \in 1..Len(props.p.calls) :
               LET c == props.p.calls[i]
               IN  /\ c.found
                   /\ ~c.unreachable
                   /\ c.view = Len(props.views) + 1 - i
                   /\ c.idx = BlockStart(props.kind, props.last.views0, c.view)
                   /\ c.start_idx = c.idx

C39_Witness ==
    /\ props.last.pass = "rebuild"
    /\ props.kind = "class"
    /\ Len(props.views) = 2
    /\ Len(props.views[1]) < Len(props.last.views0[1])
    /\ Len(props.views[2]) > Len(props.last.views0[2])
    /\ Len(props.p.calls) = 2
    /\ props.p.calls[1].idx = Len(props.last.views0[1]) + 1
    /\ props.p.calls[2].idx = 0

---------------------------------------------------------------------------
(* The modifiers the views issue in one pass, innermost view first.        *)
RECURSIVE AddEach(_, _)
AddEach(classes, i) ==
    IF i > Len(classes) THEN <<>>
    ELSE <<Modifier("Add", classes[i], 0)>> \o AddEach(classes, i + 1)

RECURSIVE SetEach(_, _)
SetEach(styles, i) ==
    IF i > Len(styles) THEN <<>>
    ELSE <<Modifier("Set", styles[i].name, styles[i].value)>> \o SetEach(styles, i + 1)

RECURSIVE Issued(_, _, _)
Issued(kind, views, d) ==
    IF d > Len(views) THEN <<>>
    ELSE (CASE kind = "class" -> AddEach(views[d], 1)
            [] kind = "style" -> SetEach(views[d], 1)
            [] OTHER -> IF views[d].value # 0
                        THEN <<Modifier("Set", views[d].name, views[d].value)>>
                        ELSE <<Modifier("Remove", views[d].name, 0)>>)
         \o Issued(kind, views, d + 1)

(* C33: after apply_class_changes following a rebuild pass the element's   *)
(* class name holds exactly the classes that the pass's add and remove     *)
(* modifiers, applied in order, leave; a class added only in an earlier    *)
(* pass is absent.                                                         *)
C33_ClassNameFollowsPass ==
    (props.phase = "applied" /\ props.kind = "class" /\ props.last.pass = "rebuild") =>
        props.el.class_name = class_set(Issued("class", props.views, 1), 1, {})

(* C34: after apply_attribute_changes (apply_style_changes) following a    *)
(* rebuild pass the element carries exactly the attributes (styles) that   *)
(* the pass's modifiers, applied in order, leave, the last modifier of a   *)
(* name winning; a name set in the pass before and by no modifier now is   *)
(* absent.                                                                 *)
C34_AttributesFollowPass ==
    (/\ props.phase = "applied" /\ props.kind \in {"attribute", "style"}
     /\ props.last.pass = "rebuild") =>
        props.el.attributes =
            apply_all(Issued(props.kind, props.views, 1), 1, NewElement).attributes

(* C35: on an element that was not just created, the set of updated names  *)
(* is empty when apply_attribute_changes (apply_style_changes) finishes,   *)
(* so its debug_assert holds.                                              *)
C35_UpdatedEmptyAfterApply ==
    (/\ props.phase = "applied" /\ props.kind \in {"attribute", "style"}
     /\ props.last.pass = "rebuild") =>
        /\ props.p.updated = {}
        /\ ~props.last.assert_failed

=============================================================================
